---- MODULE Spec2Model ----
(***************************************************************************)
(* The interactive annotation editor (AnnotationCanvas.tsx) and the part   *)
(* of its parent page (ImageGrid.tsx) that owns the item detail and the    *)
(* save request.  One action per event handler; the React effects a        *)
(* handler's state change triggers are part of the handler's action,       *)
(* because React runs them before the next event is handled.               *)
(*                                                                         *)
(* Coordinates are integers (native image pixels), so Math.hypot(dx, dy)   *)
(* compared with an integer t is dx*dx + dy*dy compared with t*t.          *)
(* An optional value (T | null) is a sequence of length at most one.       *)
(* A shape is [id, type, color, bbox, points]: bbox is optional, and an    *)
(* empty points sequence stands for both an absent and an empty array,     *)
(* which the code never tells apart.                                       *)
(***************************************************************************)
EXTENDS Integers, Sequences, FiniteSets, TLC

VARIABLES
    \* AnnotationCanvas state (useState) and refs (useRef)
    annotations, tool, currentColor, selectedIds, isDrawing, startPos,
    draftShape, polygonPoints, selectionRect, selectionStart,
    freehandPoints, drawingColor, undoStack,
    \* generateAnnotationId: the ids handed out so far
    nextId,
    \* ImageGrid state and the requests it has in flight
    selectedItemId, itemDetail, items, savingAnnotations, saves, loads, server,
    \* array identity: is the editor's array the item's array object?
    sameArray,
    \* history: what the last step was and changed, the palette color when the
    \* draw in progress started, and the counts of the run so far
    last, startColor, run,
    \* a call of a geometry utility: its arguments and, once made, its result
    call

evars == <<annotations, tool, currentColor, selectedIds, isDrawing, startPos,
           draftShape, polygonPoints, selectionRect, selectionStart,
           freehandPoints, drawingColor, undoStack, nextId>>
pvars == <<selectedItemId, itemDetail, items, savingAnnotations, saves, loads,
           server, sameArray>>
hvars == <<last, startColor>>
vars == <<evars, pvars, hvars, run, call>>

-----------------------------------------------------------------------------
(* Program constants *)

MIN_BOX_SIZE == 8
POLYGON_CLOSE_DISTANCE == 14
FREEHAND_CLOSE_DISTANCE == 12
MAX_UNDO_STACK == 50
\* appendFreehandPoint's minDistance, findAnnotationAt's polyline tolerance,
\* handleMouseUp's click threshold
FREEHAND_MIN_DISTANCE == 2
HIT_TOLERANCE == 8
\* (mutant) a 3 px drag already selects by area
ClickMaxDimensionThree == 5 - 2
CLICK_MAX_DIMENSION == 5

Tools == {"bbox", "polygon", "freehand", "select", "erase"}
\* two of the twelve palette entries; COLORS[0] is the initial color
COLORS == <<"#ef4444", "#f97316">>

-----------------------------------------------------------------------------
(* Bounds of the model *)

\* ids generateAnnotationId hands out in one behaviour of the editor session
MaxIds == 1
\* vertices of an in-progress polygon, points of a freehand buffer
MaxPolygonPoints == 3
MaxFreehandPoints == 2
\* save requests in flight (the code allows one)
MaxSaves == 2
\* detail loads in flight
MaxLoads == 1
\* the undo run: shapes added, bulk deletes among the additions
MaxRunAdds == 51
MaxRunDeletes == 1
\* ids handed out in one behaviour of the save session
MaxSaveIds == 2
\* ids handed out in one behaviour of the bbox session
MaxBboxIds == 2
\* ids handed out in one behaviour of the polygon session
MaxPolygonIds == 1
\* ids handed out in one behaviour of the freehand session
MaxFreehandIds == 1
\* longest path handed to a geometry utility
MaxPathLen == 3
\* ids handed out in one behaviour of the select session
MaxSelectIds == 1

-----------------------------------------------------------------------------
(* Optional values and sequence helpers *)

None == <<>>
Some(v) == <<v>>

Last(s) == s[Len(s)]
Front(s) == SubSeq(s, 1, Len(s) - 1)
Range(s) == {s[i] : i \in 1..Len(s)}

RECURSIVE Filter(_, _)
\* Array.prototype.filter with the predicate given as the set of kept values
Filter(s, keep) ==
    IF s = <<>> THEN <<>>
    ELSE IF Head(s) \in keep THEN <<Head(s)>> \o Filter(Tail(s), keep)
    ELSE Filter(Tail(s), keep)

RECURSIVE Dedupe(_)
\* Array.from(new Set(s)): first occurrences, in order
Dedupe(s) ==
    IF s = <<>> THEN <<>>
    ELSE LET f == Dedupe(Front(s))
         IN IF Last(s) \in Range(f) THEN f ELSE Append(f, Last(s))

Min2(a, b) == IF a < b THEN a ELSE b
Max2(a, b) == IF a > b THEN a ELSE b
Abs(a) == IF a < 0 THEN -a ELSE a

Pt(x, y) == [x |-> x, y |-> y]
Dist2(p, q) == (p.x - q.x) * (p.x - q.x) + (p.y - q.y) * (p.y - q.y)

-----------------------------------------------------------------------------
(* Geometry utilities *)

\* (mutant) a path whose ends are far apart is returned as it is
ensureClosedOnlySnaps(points, threshold) ==
    IF Len(points) < 2 THEN points
    ELSE LET first == points[1]
             distance2 == Dist2(Last(points), first)
         IN IF distance2 = 0 THEN points
            ELSE IF threshold >= 0 /\ distance2 <= threshold * threshold
                 THEN Append(Front(points), first)
                 ELSE points

\* (mutant) the first point is appended whenever the ends differ
ensureClosedNeverSnaps(points, threshold) ==
    IF Len(points) < 2 THEN points
    ELSE LET first == points[1]
             distance2 == Dist2(Last(points), first)
         IN IF distance2 = 0 THEN points
            ELSE Append(points, first)

ensureClosed(points, threshold) ==
    IF Len(points) < 2 THEN points
    ELSE LET first == points[1]
             distance2 == Dist2(Last(points), first)
         IN IF distance2 = 0 THEN points
            ELSE IF threshold >= 0 /\ distance2 <= threshold * threshold
                 THEN Append(Front(points), first)
                 ELSE Append(points, first)

\* Math.min(...values), Math.max(...values) of a non-empty array
MinOf(values) == CHOOSE v \in Range(values) : \A w \in Range(values) : v <= w
MaxOf(values) == CHOOSE v \in Range(values) : \A w \in Range(values) : v >= w

\* Rect | null
\* (mutant) a shape without geometry is given the bounds of the image
computeShapeBoundsWholeImage(shape) ==
    IF shape.bbox # None THEN Some(shape.bbox[1])
    ELSE IF Len(shape.points) > 0
    THEN LET xs == [i \in 1..Len(shape.points) |-> shape.points[i].x]
             ys == [i \in 1..Len(shape.points) |-> shape.points[i].y]
         IN Some([x |-> MinOf(xs), y |-> MinOf(ys),
                  width |-> MaxOf(xs) - MinOf(xs), height |-> MaxOf(ys) - MinOf(ys)])
    ELSE Some([x |-> 0, y |-> 0, width |-> 40, height |-> 40])

computeShapeBounds(shape) ==
    IF shape.bbox # None THEN Some(shape.bbox[1])
    ELSE IF Len(shape.points) > 0
    THEN LET xs == [i \in 1..Len(shape.points) |-> shape.points[i].x]
             ys == [i \in 1..Len(shape.points) |-> shape.points[i].y]
             minX == MinOf(xs)
             maxX == MaxOf(xs)
             minY == MinOf(ys)
             maxY == MaxOf(ys)
         IN Some([x |-> minX, y |-> minY,
                  width |-> maxX - minX, height |-> maxY - minY])
    ELSE None

normalizeRect(start, end) ==
    [x |-> Min2(start.x, end.x), y |-> Min2(start.y, end.y),
     width |-> Abs(end.x - start.x), height |-> Abs(end.y - start.y)]

\* (mutant) only the horizontal extent is compared
rectsIntersectXOnly(a, b) ==
    /\ a.x < b.x + b.width
    /\ a.x + a.width > b.x

\* (mutant) rectangles that share an edge or a corner intersect
rectsIntersectInclusive(a, b) ==
    /\ a.x <= b.x + b.width
    /\ a.x + a.width >= b.x
    /\ a.y <= b.y + b.height
    /\ a.y + a.height >= b.y

rectsIntersect(a, b) ==
    /\ a.x < b.x + b.width
    /\ a.x + a.width > b.x
    /\ a.y < b.y + b.height
    /\ a.y + a.height > b.y

\* distancePointToSegment(point, start, end) <= tolerance, in exact arithmetic:
\* t = dot / l2 clamped to [0, 1]; inside the segment the squared distance is
\* cross^2 / l2
SegmentWithin(point, start, end, tolerance) ==
    LET l2 == Dist2(start, end)
        dot == (point.x - start.x) * (end.x - start.x)
               + (point.y - start.y) * (end.y - start.y)
        cross == (point.x - start.x) * (end.y - start.y)
                 - (point.y - start.y) * (end.x - start.x)
        tol2 == tolerance * tolerance
    IN IF l2 = 0 THEN Dist2(point, start) <= tol2
       ELSE IF dot <= 0 THEN Dist2(point, start) <= tol2
       ELSE IF dot >= l2 THEN Dist2(point, end) <= tol2
       ELSE cross * cross <= tol2 * l2

isPointNearPolyline(point, polyline, tolerance) ==
    \E index \in 1..(Len(polyline) - 1) :
        SegmentWithin(point, polyline[index], polyline[index + 1], tolerance)

\* (mutant) a point on an edge is to the left of it
EdgeCrossesInclusive(point, pi, pj) ==
    /\ (pi.y > point.y) # (pj.y > point.y)
    /\ LET n == (pj.x - pi.x) * (point.y - pi.y)
           d == pj.y - pi.y
       IN IF d > 0 THEN (point.x - pi.x) * d <= n
          ELSE (point.x - pi.x) * d >= n

\* one edge of the ray cast: (yi > py) # (yj > py) and
\* px < (xj - xi) * (py - yi) / (yj - yi) + xi, the quotient cross-multiplied
EdgeCrosses(point, pi, pj) ==
    /\ (pi.y > point.y) # (pj.y > point.y)
    /\ LET n == (pj.x - pi.x) * (point.y - pi.y)
           d == pj.y - pi.y
       IN IF d > 0 THEN (point.x - pi.x) * d < n
          ELSE (point.x - pi.x) * d > n

\* (mutant) the quotient is evaluated for every edge
QuotientEdgesAll(point, polygon) == 1..Len(polygon)

\* the edges i (from vertex j = i - 1, or the last for the first) for which
\* the right operand of && is evaluated, and with it the quotient by (yj - yi)
QuotientEdges(point, polygon) ==
    {i \in 1..Len(polygon) :
        LET j == IF i = 1 THEN Len(polygon) ELSE i - 1
        IN (polygon[i].y > point.y) # (polygon[j].y > point.y)}

isPointInPolygon(point, polygon) ==
    LET n == Len(polygon)
        prev(i) == IF i = 1 THEN n ELSE i - 1
        crossings == {i \in QuotientEdges(point, polygon) :
                         EdgeCrosses(point, polygon[i], polygon[prev(i)])}
    IN Cardinality(crossings) % 2 = 1

-----------------------------------------------------------------------------
(* Inputs *)

\* pointer positions in native pixels: two points 14.1 px apart, so outside
\* every closing distance of each other and a valid bounding-box drag
PointerPositions == {Pt(0, 0), Pt(10, 10)}

ItemIds == {"A", "B"}

\* ids: generated ("ann"), supplied by the server ("seed"), draft sentinels
GenId(n) == <<"ann", n>>
DRAFT_BBOX == <<"draft-bbox", 0>>
DRAFT_FREEHAND == <<"draft-freehand", 0>>
\* the id of the preview the renderer builds from polygonPoints
DRAFT_POLYGON == <<"draft-polygon", 0>>

BboxShape(id, color, rect) ==
    [id |-> id, type |-> "bbox", color |-> color, bbox |-> Some(rect), points |-> <<>>]
PointsShape(id, type, color, points) ==
    [id |-> id, type |-> type, color |-> color, bbox |-> None, points |-> points]

\* what the server holds for each item before the session
SeedAnnotations(item) ==
    IF item = "A"
    THEN <<BboxShape(<<"seed", 1>>, COLORS[2], [x |-> 0, y |-> 0, width |-> 20, height |-> 20])>>
    ELSE <<>>

\* what the server holds for an item annotated before: two boxes that overlap
\* between (10,10) and (20,20), and between them a shape that came without
\* bbox and without points
INERT_ID == <<"seed", 3>>
StackedAnnotations ==
    <<BboxShape(<<"seed", 1>>, COLORS[2], [x |-> 0, y |-> 0, width |-> 20, height |-> 20]),
      PointsShape(INERT_ID, "polygon", COLORS[1], <<>>),
      BboxShape(<<"seed", 2>>, COLORS[1], [x |-> 10, y |-> 10, width |-> 20, height |-> 20])>>

-----------------------------------------------------------------------------
(* AnnotationCanvas: helpers of the handlers *)

\* the canvas is rendered only while the page holds an item detail
Mounted == itemDetail # None

cloneAnnotations(shapes) ==
    [i \in 1..Len(shapes) |->
        [id |-> shapes[i].id, type |-> shapes[i].type, color |-> shapes[i].color,
         bbox |-> IF shapes[i].bbox # None
                  THEN LET b == shapes[i].bbox[1]
                       IN Some([x |-> b.x, y |-> b.y, width |-> b.width, height |-> b.height])
                  ELSE None,
         points |-> [j \in 1..Len(shapes[i].points) |->
                        Pt(shapes[i].points[j].x, shapes[i].points[j].y)]]]

\* (mutant) at capacity the snapshot just pushed is the one dropped
pushUndoSnapshotDropNewest(stack, snapshot) ==
    LET pushed == Append(stack, cloneAnnotations(snapshot))
    IN IF Len(pushed) > MAX_UNDO_STACK THEN Front(pushed) ELSE pushed

\* (mutant) nothing is ever dropped
pushUndoSnapshotUnbounded(stack, snapshot) ==
    Append(stack, cloneAnnotations(snapshot))

\* undoStackRef.current after pushUndoSnapshot(snapshot)
pushUndoSnapshot(stack, snapshot) ==
    LET pushed == Append(stack, cloneAnnotations(snapshot))
    IN IF Len(pushed) > MAX_UNDO_STACK THEN Tail(pushed) ELSE pushed

\* does shape match the point (the three tests of findAnnotationAt's loop body)
\* (mutant) the edges of a box do not belong to it
ShapeHitStrictEdges(shape, point) ==
    \/ /\ shape.bbox # None
       /\ LET b == shape.bbox[1]
          IN /\ point.x > b.x /\ point.x < b.x + b.width
             /\ point.y > b.y /\ point.y < b.y + b.height
    \/ /\ Len(shape.points) >= 3
       /\ isPointInPolygon(point, shape.points)
    \/ /\ shape.type = "freehand"
       /\ Len(shape.points) >= 2
       /\ isPointNearPolyline(point, shape.points, HIT_TOLERANCE)

ShapeHit(shape, point) ==
    \/ /\ shape.bbox # None
       /\ LET b == shape.bbox[1]
          IN /\ point.x >= b.x /\ point.x <= b.x + b.width
             /\ point.y >= b.y /\ point.y <= b.y + b.height
    \/ /\ Len(shape.points) >= 3
       /\ isPointInPolygon(point, shape.points)
    \/ /\ shape.type = "freehand"
       /\ Len(shape.points) >= 2
       /\ isPointNearPolyline(point, shape.points, HIT_TOLERANCE)

\* (mutant) the loop runs from the first index up
findAnnotationAtOldest(point) ==
    LET hits == {i \in 1..Len(annotations) : ShapeHit(annotations[i], point)}
    IN IF hits = {} THEN None
       ELSE Some(annotations[CHOOSE i \in hits : \A j \in hits : i <= j].id)

\* string | null: the loop runs from the last index down and returns the first hit
findAnnotationAt(point) ==
    LET hits == {i \in 1..Len(annotations) : ShapeHit(annotations[i], point)}
    IN IF hits = {} THEN None
       ELSE Some(annotations[CHOOSE i \in hits : \A j \in hits : j <= i].id)

IdsOf(shapes) == {shapes[i].id : i \in 1..Len(shapes)}
WithoutIds(shapes, ids) ==
    Filter(shapes, {sh \in Range(shapes) : sh.id \notin ids})

\* useEffect([currentColor, isDrawing, polygonPoints.length]): runs after a
\* render in which a dependency changed; byHandler is what the handler left in
\* drawingColorRef
DrawingColorEffect(byHandler, color2, drawing2, polygon2) ==
    IF /\ \/ color2 # currentColor
          \/ drawing2 # isDrawing
          \/ Len(polygon2) # Len(polygonPoints)
       /\ ~drawing2
       /\ Len(polygon2) = 0
    THEN color2
    ELSE byHandler

\* every in-flight save lost its identity with the editor's array when the
\* editor's state became a new array
SavesAfterNewEditorArray ==
    [k \in 1..Len(saves) |-> [saves[k] EXCEPT !.sameAsEditor = FALSE]]

\* setAnnotations with a new array: a mutation of the collection
ReplaceCollection(shapes) ==
    /\ annotations' = shapes
    /\ sameArray' = FALSE
    /\ saves' = SavesAfterNewEditorArray

CollectionUntouched == UNCHANGED <<annotations, sameArray, saves>>

ParentUntouched ==
    UNCHANGED <<selectedItemId, itemDetail, items, savingAnnotations, loads, server>>

-----------------------------------------------------------------------------
(* AnnotationCanvas: committing a shape *)

\* setAnnotations(prev => { pushUndoSnapshot(prev); return [...prev, newShape] })
\* and setSelectedIds([newShape.id]), with the id generateAnnotationId returns
\* (mutant) the draft on screen is what gets appended
CommitDraftShape(newShape) ==
    /\ ReplaceCollection(Append(annotations,
           IF draftShape # None THEN draftShape[1] ELSE newShape))
    /\ undoStack' = pushUndoSnapshot(undoStack, annotations)
    /\ selectedIds' = <<newShape.id>>
    /\ nextId' = nextId + 1

CommitShape(newShape) ==
    /\ ReplaceCollection(Append(annotations, newShape))
    /\ undoStack' = pushUndoSnapshot(undoStack, annotations)
    /\ selectedIds' = <<newShape.id>>
    /\ nextId' = nextId + 1

NoCommit ==
    /\ CollectionUntouched
    /\ UNCHANGED <<undoStack, selectedIds, nextId>>

\* the color finalizeBoundingBox gives the new shape
BoundingBoxColor == currentColor

\* (mutant) one side of the minimum size is enough
finalizeBoundingBoxEitherSide(coords) ==
    IF startPos = None THEN NoCommit
    ELSE LET width == Abs(coords.x - startPos[1].x)
             height == Abs(coords.y - startPos[1].y)
         IN IF width < MIN_BOX_SIZE /\ height < MIN_BOX_SIZE THEN NoCommit
            ELSE CommitShape(BboxShape(GenId(nextId), BoundingBoxColor,
                     [x |-> Min2(startPos[1].x, coords.x),
                      y |-> Min2(startPos[1].y, coords.y),
                      width |-> width, height |-> height]))

\* (mutant) the anchor is taken for the top-left corner
finalizeBoundingBoxFromAnchor(coords) ==
    IF startPos = None THEN NoCommit
    ELSE LET width == Abs(coords.x - startPos[1].x)
             height == Abs(coords.y - startPos[1].y)
         IN IF width < MIN_BOX_SIZE \/ height < MIN_BOX_SIZE THEN NoCommit
            ELSE CommitShape(BboxShape(GenId(nextId), BoundingBoxColor,
                     [x |-> startPos[1].x, y |-> startPos[1].y,
                      width |-> width, height |-> height]))

finalizeBoundingBox(coords) ==
    IF startPos = None THEN NoCommit
    ELSE LET width == Abs(coords.x - startPos[1].x)
             height == Abs(coords.y - startPos[1].y)
         IN IF width < MIN_BOX_SIZE \/ height < MIN_BOX_SIZE THEN NoCommit
            ELSE CommitShape(BboxShape(GenId(nextId), BoundingBoxColor,
                     [x |-> Min2(startPos[1].x, coords.x),
                      y |-> Min2(startPos[1].y, coords.y),
                      width |-> width, height |-> height]))

\* (mutant) the palette color at the time of the commit
PinnedColorAtCommit == currentColor

\* the color finalizeFreehand and finalizePolygon give the new shape
PinnedColor == drawingColor

\* (mutant) the stroke is committed as sampled, without closing it
finalizeFreehandOpen(points) ==
    /\ IF Len(points) < 2 THEN NoCommit
       ELSE CommitShape(PointsShape(GenId(nextId), "freehand", PinnedColor, points))
    /\ freehandPoints' = <<>>
    /\ draftShape' = None
    /\ isDrawing' = FALSE
    /\ startPos' = None

\* finalizeFreehand with freehandPointsRef.current = points
finalizeFreehand(points) ==
    /\ IF Len(points) < 2 THEN NoCommit
       ELSE CommitShape(PointsShape(GenId(nextId), "freehand", PinnedColor,
                ensureClosed(points, FREEHAND_CLOSE_DISTANCE)))
    /\ freehandPoints' = <<>>
    /\ draftShape' = None
    /\ isDrawing' = FALSE
    /\ startPos' = None

\* finalizePolygon(points): polygonPoints' is set by it only when it commits
finalizePolygon(points) ==
    IF Len(points) < 3
    THEN NoCommit /\ UNCHANGED polygonPoints
    ELSE /\ CommitShape(PointsShape(GenId(nextId), "polygon", PinnedColor,
                ensureClosed(points, POLYGON_CLOSE_DISTANCE)))
         /\ polygonPoints' = <<>>

-----------------------------------------------------------------------------
(* AnnotationCanvas: handleMouseDown *)

MouseDownSelect(coords, shiftKey) ==
    /\ tool = "select"
    /\ selectionStart' = Some(coords)
    /\ isDrawing' = TRUE
    /\ selectionRect' = Some([x |-> coords.x, y |-> coords.y, width |-> 0, height |-> 0])
    /\ selectedIds' = IF ~shiftKey THEN <<>> ELSE selectedIds
    /\ CollectionUntouched
    /\ UNCHANGED <<tool, currentColor, startPos, draftShape, polygonPoints,
                   freehandPoints, drawingColor, undoStack, nextId>>

\* (mutant) erase without the undo snapshot
EraseFoundNoSnapshot(found) ==
    /\ ReplaceCollection(WithoutIds(annotations, {found}))
    /\ UNCHANGED undoStack
    /\ selectedIds' = Filter(selectedIds, Range(selectedIds) \ {found})

\* what the erase branch does to the collection, the stack and the selection
EraseFound(found) ==
    /\ ReplaceCollection(WithoutIds(annotations, {found}))
    /\ undoStack' = pushUndoSnapshot(undoStack, annotations)
    /\ selectedIds' = Filter(selectedIds, Range(selectedIds) \ {found})

MouseDownErase(coords) ==
    /\ tool = "erase"
    /\ LET found == findAnnotationAt(coords)
       IN IF found # None THEN EraseFound(found[1])
          ELSE CollectionUntouched /\ UNCHANGED <<undoStack, selectedIds>>
    /\ UNCHANGED <<tool, currentColor, isDrawing, startPos, draftShape,
                   polygonPoints, selectionRect, selectionStart, freehandPoints,
                   drawingColor, nextId>>

MouseDownBbox(coords) ==
    /\ tool = "bbox"
    /\ isDrawing' = TRUE
    /\ drawingColor' = currentColor
    /\ startPos' = Some(coords)
    /\ draftShape' = Some(BboxShape(DRAFT_BBOX, currentColor,
                         [x |-> coords.x, y |-> coords.y, width |-> 0, height |-> 0]))
    /\ CollectionUntouched
    /\ UNCHANGED <<tool, currentColor, selectedIds, polygonPoints, selectionRect,
                   selectionStart, freehandPoints, undoStack, nextId>>

MouseDownFreehand(coords) ==
    /\ tool = "freehand"
    /\ isDrawing' = TRUE
    /\ drawingColor' = currentColor
    \* freehandPointsRef.current = []; appendFreehandPoint(coords, true)
    /\ freehandPoints' = <<coords>>
    /\ draftShape' = Some(PointsShape(DRAFT_FREEHAND, "freehand", currentColor, <<coords>>))
    /\ CollectionUntouched
    /\ UNCHANGED <<tool, currentColor, selectedIds, startPos, polygonPoints,
                   selectionRect, selectionStart, undoStack, nextId>>

\* (mutant) two vertices are enough for the click near the start to close
PolygonClosesFromTwo(coords) ==
    /\ Len(polygonPoints) >= 2
    /\ Dist2(coords, polygonPoints[1]) <= POLYGON_CLOSE_DISTANCE * POLYGON_CLOSE_DISTANCE

\* is a pointer-down at coords the click near the start that closes the polygon
PolygonCloses(coords) ==
    /\ Len(polygonPoints) >= 3
    /\ Dist2(coords, polygonPoints[1]) <= POLYGON_CLOSE_DISTANCE * POLYGON_CLOSE_DISTANCE

MouseDownPolygon(coords) ==
    /\ tool = "polygon"
    /\ LET pinned == IF Len(polygonPoints) = 0 THEN currentColor ELSE drawingColor
       IN IF PolygonCloses(coords)
          THEN /\ finalizePolygon(polygonPoints)
               /\ drawingColor' = DrawingColorEffect(pinned, currentColor, isDrawing,
                                                     polygonPoints')
          ELSE /\ Len(polygonPoints) < MaxPolygonPoints
               /\ polygonPoints' = Append(polygonPoints, coords)
               /\ drawingColor' = pinned
               /\ NoCommit
    /\ UNCHANGED <<tool, currentColor, isDrawing, startPos, draftShape,
                   selectionRect, selectionStart, freehandPoints>>

MouseDown(coords, shiftKey) ==
    /\ Mounted
    /\ \/ MouseDownSelect(coords, shiftKey)
       \/ MouseDownErase(coords)
       \/ MouseDownBbox(coords)
       \/ MouseDownFreehand(coords)
       \/ MouseDownPolygon(coords)
    /\ ParentUntouched

-----------------------------------------------------------------------------
(* AnnotationCanvas: handleMouseMove, handleMouseUp, handleMouseLeave *)

\* must a pointer-move append its point to the freehand buffer
\* (appendFreehandPoint with force = false)
\* (mutant) every sampled point is taken
FreehandGateOpen(points, point) ==
    \/ Len(points) = 0
    \/ Dist2(point, Last(points)) >= 0

FreehandGate(points, point) ==
    \/ Len(points) = 0
    \/ Dist2(point, Last(points)) >= FREEHAND_MIN_DISTANCE * FREEHAND_MIN_DISTANCE

MouseMove(coords) ==
    /\ Mounted
    /\ IF tool = "select" /\ selectionStart # None
       THEN /\ selectionRect' = Some(normalizeRect(selectionStart[1], coords))
            /\ UNCHANGED <<draftShape, freehandPoints>>
       ELSE IF ~isDrawing
       THEN UNCHANGED <<selectionRect, draftShape, freehandPoints>>
       ELSE IF tool = "bbox" /\ startPos # None
       THEN /\ draftShape' = Some(BboxShape(DRAFT_BBOX, drawingColor,
                                     normalizeRect(startPos[1], coords)))
            /\ UNCHANGED <<selectionRect, freehandPoints>>
       ELSE IF tool = "freehand" /\ FreehandGate(freehandPoints, coords)
       THEN /\ Len(freehandPoints) < MaxFreehandPoints
            /\ freehandPoints' = Append(freehandPoints, coords)
            /\ draftShape' = Some(PointsShape(DRAFT_FREEHAND, "freehand", drawingColor,
                                     freehandPoints'))
            /\ UNCHANGED selectionRect
       ELSE UNCHANGED <<selectionRect, draftShape, freehandPoints>>
    /\ NoCommit
    /\ UNCHANGED <<tool, currentColor, isDrawing, startPos, polygonPoints,
                   selectionStart, drawingColor>>
    /\ ParentUntouched

\* the select branch of handleMouseUp
MouseUpSelect(coords, shiftKey) ==
    LET start == selectionStart
        rect == IF selectionRect # None /\ start # None THEN selectionRect
                ELSE IF start # None THEN Some(normalizeRect(start[1], coords))
                ELSE None
        minDimension == IF rect # None THEN Max2(rect[1].width, rect[1].height) ELSE 0
        found == findAnnotationAt(coords)
        matches == LET hit == {sh \in Range(annotations) :
                                  LET bounds == computeShapeBounds(sh)
                                  IN bounds # None /\ rectsIntersect(rect[1], bounds[1])}
                   IN [i \in 1..Len(Filter(annotations, hit)) |-> Filter(annotations, hit)[i].id]
    IN /\ selectionStart' = None
       /\ selectionRect' = None
       /\ isDrawing' = FALSE
       /\ selectedIds' =
            IF start = None THEN selectedIds
            ELSE IF rect = None \/ minDimension < CLICK_MAX_DIMENSION
            THEN IF found # None
                 THEN IF shiftKey
                      THEN IF found[1] \in Range(selectedIds)
                           THEN Filter(selectedIds, Range(selectedIds) \ {found[1]})
                           ELSE Append(selectedIds, found[1])
                      ELSE <<found[1]>>
                 ELSE IF ~shiftKey THEN <<>> ELSE selectedIds
            ELSE IF Len(matches) > 0
                 THEN IF shiftKey THEN Dedupe(selectedIds \o matches) ELSE matches
                 ELSE IF ~shiftKey THEN <<>> ELSE selectedIds
       /\ drawingColor' = DrawingColorEffect(drawingColor, currentColor, FALSE, polygonPoints)
       /\ CollectionUntouched
       /\ UNCHANGED <<tool, currentColor, startPos, draftShape, polygonPoints,
                      freehandPoints, undoStack, nextId>>

\* handleMouseUp: also what handleMouseLeave runs for the select and bbox tools
MouseUpBody(coords, shiftKey) ==
    IF tool = "select" THEN MouseUpSelect(coords, shiftKey)
    ELSE IF ~isDrawing
    THEN /\ NoCommit
         /\ UNCHANGED <<tool, currentColor, isDrawing, startPos, draftShape, polygonPoints,
                        selectionRect, selectionStart, freehandPoints, drawingColor>>
    ELSE IF tool = "bbox"
    THEN /\ finalizeBoundingBox(coords)
         /\ isDrawing' = FALSE
         /\ startPos' = None
         /\ draftShape' = None
         /\ drawingColor' = DrawingColorEffect(drawingColor, currentColor, FALSE, polygonPoints)
         /\ UNCHANGED <<tool, currentColor, polygonPoints, selectionRect, selectionStart,
                        freehandPoints>>
    ELSE IF tool = "freehand"
    \* appendFreehandPoint(coords, true); finalizeFreehand()
    THEN /\ finalizeFreehand(Append(freehandPoints, coords))
         /\ drawingColor' = DrawingColorEffect(drawingColor, currentColor, FALSE, polygonPoints)
         /\ UNCHANGED <<tool, currentColor, polygonPoints, selectionRect, selectionStart>>
    ELSE /\ NoCommit
         /\ UNCHANGED <<tool, currentColor, isDrawing, startPos, draftShape, polygonPoints,
                        selectionRect, selectionStart, freehandPoints, drawingColor>>

MouseUp(coords, shiftKey) ==
    /\ Mounted
    /\ MouseUpBody(coords, shiftKey)
    /\ ParentUntouched

MouseLeave(coords, shiftKey) ==
    /\ Mounted
    /\ IF tool = "select" /\ selectionStart # None THEN MouseUpBody(coords, shiftKey)
       ELSE IF ~isDrawing
       THEN /\ NoCommit
            /\ UNCHANGED <<tool, currentColor, isDrawing, startPos, draftShape, polygonPoints,
                           selectionRect, selectionStart, freehandPoints, drawingColor>>
       ELSE IF tool = "bbox" THEN MouseUpBody(coords, shiftKey)
       ELSE IF tool = "freehand"
       THEN /\ finalizeFreehand(freehandPoints)
            /\ drawingColor' = DrawingColorEffect(drawingColor, currentColor, FALSE, polygonPoints)
            /\ UNCHANGED <<tool, currentColor, polygonPoints, selectionRect, selectionStart>>
       ELSE /\ NoCommit
            /\ UNCHANGED <<tool, currentColor, isDrawing, startPos, draftShape, polygonPoints,
                           selectionRect, selectionStart, freehandPoints, drawingColor>>
    /\ ParentUntouched

-----------------------------------------------------------------------------
(* AnnotationCanvas: commands *)

\* (mutant) the key takes a vertex only from a polygon that could be finished
UndoRemovesVertexFromThree == tool = "polygon" /\ Len(polygonPoints) >= 3

\* is Ctrl/Cmd+Z taken by the polygon in progress (handleKeyDown's test)
UndoRemovesVertex == tool = "polygon" /\ Len(polygonPoints) > 0

\* (mutant) the oldest snapshot instead of the most recent
UndoPoppedOldest == Head(undoStack)

\* what undoLastAnnotationChange pops, when it pops
UndoPopped == Last(undoStack)

\* (mutant) the restored collection keeps the selection it had
undoLastAnnotationChangeKeepsSelection ==
    IF undoStack = <<>>
    THEN CollectionUntouched /\ UNCHANGED <<undoStack, selectedIds>>
    ELSE /\ ReplaceCollection(UndoPopped)
         /\ undoStack' = Front(undoStack)
         /\ UNCHANGED selectedIds

\* (mutant) the selection is cleared before the stack is looked at
undoLastAnnotationChangeClearing ==
    IF undoStack = <<>>
    THEN CollectionUntouched /\ UNCHANGED undoStack /\ selectedIds' = <<>>
    ELSE /\ ReplaceCollection(UndoPopped)
         /\ undoStack' = Front(undoStack)
         /\ selectedIds' = <<>>

undoLastAnnotationChange ==
    IF undoStack = <<>>
    THEN CollectionUntouched /\ UNCHANGED <<undoStack, selectedIds>>
    ELSE /\ ReplaceCollection(UndoPopped)
         /\ undoStack' = Front(undoStack)
         /\ selectedIds' = <<>>

\* handleKeyDown for Ctrl/Cmd+Z
KeyUndo ==
    /\ Mounted
    /\ IF UndoRemovesVertex
       THEN /\ polygonPoints' = Front(polygonPoints)
            /\ CollectionUntouched
            /\ UNCHANGED <<undoStack, selectedIds>>
       ELSE /\ undoLastAnnotationChange
            /\ UNCHANGED polygonPoints
    /\ drawingColor' = DrawingColorEffect(drawingColor, currentColor, isDrawing, polygonPoints')
    /\ UNCHANGED <<tool, currentColor, isDrawing, startPos, draftShape, selectionRect,
                   selectionStart, freehandPoints, nextId>>
    /\ ParentUntouched

FinishPolygon ==
    /\ Mounted
    /\ finalizePolygon(polygonPoints)
    /\ drawingColor' = DrawingColorEffect(drawingColor, currentColor, isDrawing, polygonPoints')
    /\ UNCHANGED <<tool, currentColor, isDrawing, startPos, draftShape, selectionRect,
                   selectionStart, freehandPoints>>
    /\ ParentUntouched

UndoPolygonPoint ==
    /\ Mounted
    /\ polygonPoints' = Front(polygonPoints)
    /\ drawingColor' = DrawingColorEffect(drawingColor, currentColor, isDrawing, polygonPoints')
    /\ NoCommit
    /\ UNCHANGED <<tool, currentColor, isDrawing, startPos, draftShape, selectionRect,
                   selectionStart, freehandPoints>>
    /\ ParentUntouched

\* (mutant) clearing is recorded in the undo stack
ClearPolygonSnapshotting ==
    /\ Mounted
    /\ polygonPoints' = <<>>
    /\ drawingColor' = DrawingColorEffect(drawingColor, currentColor, isDrawing, polygonPoints')
    /\ CollectionUntouched
    /\ undoStack' = pushUndoSnapshot(undoStack, annotations)
    /\ UNCHANGED <<selectedIds, nextId>>
    /\ UNCHANGED <<tool, currentColor, isDrawing, startPos, draftShape, selectionRect,
                   selectionStart, freehandPoints>>
    /\ ParentUntouched

ClearPolygon ==
    /\ Mounted
    /\ polygonPoints' = <<>>
    /\ drawingColor' = DrawingColorEffect(drawingColor, currentColor, isDrawing, polygonPoints')
    /\ NoCommit
    /\ UNCHANGED <<tool, currentColor, isDrawing, startPos, draftShape, selectionRect,
                   selectionStart, freehandPoints>>
    /\ ParentUntouched

\* handleDeleteSelected
\* (mutant) only the first selected shape is removed
DeleteSelectedFirstOnly ==
    /\ Mounted
    /\ IF Len(selectedIds) = 0
       THEN CollectionUntouched /\ UNCHANGED <<undoStack, selectedIds>>
       ELSE /\ ReplaceCollection(WithoutIds(annotations, {selectedIds[1]}))
            /\ undoStack' = pushUndoSnapshot(undoStack, annotations)
            /\ selectedIds' = <<>>
    /\ UNCHANGED <<tool, currentColor, isDrawing, startPos, draftShape, polygonPoints,
                   selectionRect, selectionStart, freehandPoints, drawingColor, nextId>>
    /\ ParentUntouched

DeleteSelected ==
    /\ Mounted
    /\ IF Len(selectedIds) = 0
       THEN CollectionUntouched /\ UNCHANGED <<undoStack, selectedIds>>
       ELSE /\ ReplaceCollection(WithoutIds(annotations, Range(selectedIds)))
            /\ undoStack' = pushUndoSnapshot(undoStack, annotations)
            /\ selectedIds' = <<>>
    /\ UNCHANGED <<tool, currentColor, isDrawing, startPos, draftShape, polygonPoints,
                   selectionRect, selectionStart, freehandPoints, drawingColor, nextId>>
    /\ ParentUntouched

\* setTool(next) and useEffect([tool])
\* (mutant) the tool effect empties the selection whatever the new tool
SetToolClearsSelection(next) ==
    /\ Mounted
    /\ IF next = tool
       THEN UNCHANGED <<tool, isDrawing, startPos, draftShape, polygonPoints, selectionRect,
                        selectionStart, freehandPoints, selectedIds, drawingColor>>
       ELSE /\ tool' = next
            /\ isDrawing' = FALSE
            /\ startPos' = None
            /\ draftShape' = None
            /\ polygonPoints' = <<>>
            /\ selectionRect' = None
            /\ selectionStart' = None
            /\ freehandPoints' = <<>>
            /\ selectedIds' = <<>>
            /\ drawingColor' = DrawingColorEffect(drawingColor, currentColor, FALSE, <<>>)
    /\ CollectionUntouched
    /\ UNCHANGED <<currentColor, undoStack, nextId>>
    /\ ParentUntouched

\* (mutant) the tool effect leaves the polygon in progress and the draft
SetToolKeepsPolygon(next) ==
    /\ Mounted
    /\ IF next = tool
       THEN UNCHANGED <<tool, isDrawing, startPos, draftShape, polygonPoints, selectionRect,
                        selectionStart, freehandPoints, selectedIds, drawingColor>>
       ELSE /\ tool' = next
            /\ isDrawing' = FALSE
            /\ startPos' = None
            /\ selectionRect' = None
            /\ selectionStart' = None
            /\ freehandPoints' = <<>>
            /\ selectedIds' = IF next = "select" THEN selectedIds ELSE <<>>
            /\ drawingColor' = DrawingColorEffect(drawingColor, currentColor, FALSE, polygonPoints)
            /\ UNCHANGED <<draftShape, polygonPoints>>
    /\ CollectionUntouched
    /\ UNCHANGED <<currentColor, undoStack, nextId>>
    /\ ParentUntouched

SetTool(next) ==
    /\ Mounted
    /\ IF next = tool
       THEN UNCHANGED <<tool, isDrawing, startPos, draftShape, polygonPoints, selectionRect,
                        selectionStart, freehandPoints, selectedIds, drawingColor>>
       ELSE /\ tool' = next
            /\ isDrawing' = FALSE
            /\ startPos' = None
            /\ draftShape' = None
            /\ polygonPoints' = <<>>
            /\ selectionRect' = None
            /\ selectionStart' = None
            /\ freehandPoints' = <<>>
            /\ selectedIds' = IF next = "select" THEN selectedIds ELSE <<>>
            /\ drawingColor' = DrawingColorEffect(drawingColor, currentColor, FALSE, <<>>)
    /\ CollectionUntouched
    /\ UNCHANGED <<currentColor, undoStack, nextId>>
    /\ ParentUntouched

\* a palette button: setCurrentColor(color)
SetCurrentColor(color) ==
    /\ Mounted
    /\ currentColor' = color
    /\ drawingColor' = DrawingColorEffect(drawingColor, color, isDrawing, polygonPoints)
    /\ CollectionUntouched
    /\ UNCHANGED <<tool, selectedIds, isDrawing, startPos, draftShape, polygonPoints,
                   selectionRect, selectionStart, freehandPoints, undoStack, nextId>>
    /\ ParentUntouched

-----------------------------------------------------------------------------
(* AnnotationCanvas: the item prop *)

\* the state a freshly mounted canvas has for the item's list
\* (mutant) shapes without geometry are left out of the initial collection
EditorMountSanitized(list) ==
    /\ annotations' = LET Drawable(shape) == shape.bbox # None \/ Len(shape.points) > 0
                       IN SelectSeq(list, Drawable)
    /\ tool' = "bbox"
    /\ currentColor' = COLORS[1]
    /\ selectedIds' = <<>>
    /\ isDrawing' = FALSE
    /\ startPos' = None
    /\ draftShape' = None
    /\ polygonPoints' = <<>>
    /\ selectionRect' = None
    /\ selectionStart' = None
    /\ freehandPoints' = <<>>
    /\ drawingColor' = COLORS[1]
    /\ undoStack' = <<>>
    /\ UNCHANGED nextId

EditorMount(list) ==
    /\ annotations' = list
    /\ tool' = "bbox"
    /\ currentColor' = COLORS[1]
    /\ selectedIds' = <<>>
    /\ isDrawing' = FALSE
    /\ startPos' = None
    /\ draftShape' = None
    /\ polygonPoints' = <<>>
    /\ selectionRect' = None
    /\ selectionStart' = None
    /\ freehandPoints' = <<>>
    /\ drawingColor' = COLORS[1]
    /\ undoStack' = <<>>
    /\ UNCHANGED nextId

\* useEffect([item.id, item.annotations])
Reseed(list) ==
    /\ annotations' = list
    /\ selectedIds' = <<>>
    /\ draftShape' = None
    /\ polygonPoints' = <<>>
    /\ selectionRect' = None
    /\ selectionStart' = None
    /\ undoStack' = <<>>
    /\ drawingColor' = DrawingColorEffect(drawingColor, currentColor, isDrawing, <<>>)
    /\ UNCHANGED <<tool, currentColor, isDrawing, startPos, freehandPoints, nextId>>

\* the canvas after setSelectedItemDetail(detail): unmounted for null, mounted
\* if there was none, reseeded if item.id or the item.annotations array changed
ShowDetail(detail, arrayChanged) ==
    /\ itemDetail' = detail
    /\ IF detail = None THEN EditorMount(<<>>) /\ sameArray' = FALSE
       ELSE IF itemDetail = None THEN EditorMount(detail[1].annotations) /\ sameArray' = TRUE
       ELSE IF arrayChanged \/ detail[1].id # itemDetail[1].id
       THEN Reseed(detail[1].annotations) /\ sameArray' = TRUE
       ELSE UNCHANGED <<evars, sameArray>>

\* did ShowDetail make the editor's array the item's array
TookItemArray(detail, arrayChanged) ==
    /\ detail # None
    /\ \/ itemDetail = None
       \/ arrayChanged
       \/ detail[1].id # itemDetail[1].id

-----------------------------------------------------------------------------
(* ImageGrid: item detail, navigation and save *)

NoItem == "none"
ItemOrder == <<"A", "B">>

RemoveAt(s, k) == SubSeq(s, 1, k - 1) \o SubSeq(s, k + 1, Len(s))

\* (mutant) the save button is never disabled
SaveButtonAlwaysEnabled == TRUE

\* the save button of the canvas: disabled={saving}
SaveButtonEnabled == ~savingAnnotations

\* handleSaveClick -> handleSaveAnnotations up to its first await.  The canvas
\* is rendered only with the API online and a project, a dataset and an item
\* detail present, so the handler's guard passes.
SaveClick ==
    /\ Mounted
    /\ SaveButtonEnabled
    /\ Len(saves) < MaxSaves
    /\ savingAnnotations' = TRUE
    /\ saves' = Append(saves, [detail |-> itemDetail[1], annotations |-> annotations,
                               sameAsEditor |-> TRUE, sameAsItem |-> sameArray,
                               phase |-> "request"])
    /\ UNCHANGED <<evars, selectedItemId, itemDetail, items, loads, server, sameArray>>

\* saveAnnotationsApi resolved: setSelectedItemDetail({...selectedItemDetail,
\* annotations}) with the handler's own selectedItemDetail and annotations, then
\* the handler awaits loadItems
SaveSucceed(k) ==
    LET sv == saves[k]
        detail == Some([id |-> sv.detail.id, annotations |-> sv.annotations])
        took == TookItemArray(detail, ~sv.sameAsItem)
        asItem(j) == IF j = k THEN TRUE
                     ELSE \/ sv.sameAsEditor /\ saves[j].sameAsEditor
                          \/ sv.sameAsItem /\ saves[j].sameAsItem
    IN /\ k \in 1..Len(saves)
       /\ sv.phase = "request"
       /\ server' = [server EXCEPT ![sv.detail.id] = sv.annotations]
       /\ ShowDetail(detail, ~sv.sameAsItem)
       /\ saves' = [j \in 1..Len(saves) |->
                      [saves[j] EXCEPT !.sameAsItem = asItem(j),
                                       !.sameAsEditor = IF took THEN asItem(j) ELSE @,
                                       !.phase = IF j = k THEN "reload" ELSE @]]
       /\ UNCHANGED <<selectedItemId, items, savingAnnotations, loads>>

\* the end of handleSaveAnnotations (finally)
SaveSettled(k) ==
    /\ savingAnnotations' = FALSE
    /\ saves' = RemoveAt(saves, k)
    /\ UNCHANGED <<evars, selectedItemId, itemDetail, loads, server, sameArray>>

\* saveAnnotationsApi rejected: catch, finally
SaveFail(k) ==
    /\ k \in 1..Len(saves)
    /\ saves[k].phase = "request"
    /\ SaveSettled(k)
    /\ UNCHANGED items

\* what fetchDatasetItems returns
DatasetItems ==
    [i \in 1..Len(ItemOrder) |->
        [id |-> ItemOrder[i], annotationCount |-> Len(server[ItemOrder[i]])]]

\* loadItems returned to handleSaveAnnotations: with the list, or with its own
\* catch having emptied the list
SaveReloaded(k, listed) ==
    /\ k \in 1..Len(saves)
    /\ saves[k].phase = "reload"
    /\ SaveSettled(k)
    /\ items' = IF listed THEN DatasetItems ELSE <<>>

SavesAfterNewItemArray ==
    [j \in 1..Len(saves) |-> [saves[j] EXCEPT !.sameAsItem = FALSE, !.sameAsEditor = FALSE]]

\* useEffect([selectedDataset, selectedItemId, loadItemDetail]) for an item id
StartLoad(itemId) ==
    /\ Len(loads) < MaxLoads
    /\ loads' = Append(loads, itemId)

\* handleSelectItem, from the image grid (shown while no item is selected)
SelectItem(itemId) ==
    /\ selectedItemId = NoItem
    /\ selectedItemId' = itemId
    /\ StartLoad(itemId)
    /\ UNCHANGED <<evars, itemDetail, items, savingAnnotations, saves, server, sameArray>>

\* handleBackToImages, the canvas's back button
BackToImages ==
    /\ Mounted
    /\ selectedItemId' = NoItem
    /\ ShowDetail(None, FALSE)
    /\ saves' = SavesAfterNewItemArray
    /\ UNCHANGED <<items, savingAnnotations, loads, server>>

\* nextPendingItemId: the first listed item without annotations other than the
\* selected one
nextPendingItemId ==
    LET pending == {i \in 1..Len(items) :
                       items[i].annotationCount = 0 /\ items[i].id # selectedItemId}
    IN IF pending = {} THEN NoItem
       ELSE items[CHOOSE i \in pending : \A j \in pending : i <= j].id

\* handleGoToNextPending
GoToNextPending ==
    /\ Mounted
    /\ nextPendingItemId # NoItem
    /\ selectedItemId' = nextPendingItemId
    /\ StartLoad(nextPendingItemId)
    /\ UNCHANGED <<evars, itemDetail, items, savingAnnotations, saves, server, sameArray>>

\* fetchItemDetail resolved in loadItemDetail: a detail with a new array
LoadResolve(k) ==
    /\ k \in 1..Len(loads)
    /\ ShowDetail(Some([id |-> loads[k], annotations |-> server[loads[k]]]), TRUE)
    /\ saves' = SavesAfterNewItemArray
    /\ loads' = RemoveAt(loads, k)
    /\ UNCHANGED <<selectedItemId, items, savingAnnotations, server>>

\* fetchItemDetail failed in loadItemDetail
LoadFail(k) ==
    /\ k \in 1..Len(loads)
    /\ ShowDetail(None, FALSE)
    /\ saves' = SavesAfterNewItemArray
    /\ loads' = RemoveAt(loads, k)
    /\ UNCHANGED <<selectedItemId, items, savingAnnotations, server>>

-----------------------------------------------------------------------------
(* History variables *)

DrawInProgress(t, drawing, polygon) ==
    \/ drawing /\ t \in {"bbox", "freehand"}
    \/ Len(polygon) > 0

\* does a pointer-down in this state start a draw: the bbox anchor, the first
\* freehand point, the first polygon vertex
StartsDraw == tool \in {"bbox", "freehand"} \/ (tool = "polygon" /\ Len(polygonPoints) = 0)

\* The history of a step of the given kind ("pointerDown", "pointer" for
\* move/up/leave, "command" for the polygon and delete buttons, "undoKey",
\* "other"):
\*   mutated   the collection before the step, if the step is a tool step that
\*             changed the collection
\*   restores  for Ctrl/Cmd+Z reaching undoLastAnnotationChange right after a
\*             mutation: the collection before that mutation
\*   pinned    for a mutation: the palette color when its draw started
\*   anchor    for a pointer-up or pointer-leave that ended a bbox drag: the
\*             anchor of the drag
\*   dragged   for a pointer-up or pointer-leave that ended a select drag: the
\*             rectangle of the drag
\*   interrupted  the step changed the tool while a draw, a polygon or a
\*             selection drag was in progress
History(kind) ==
    LET mutated == IF kind \in {"pointerDown", "pointer", "command"} /\ annotations' # annotations
                   THEN Some(annotations) ELSE None
    IN /\ last' = [kind |-> IF kind = "undoKey" THEN kind ELSE "other",
                   mutated |-> mutated,
                   restores |-> IF kind = "undoKey" /\ ~(tool = "polygon" /\ Len(polygonPoints) > 0)
                                THEN last.mutated ELSE None,
                   pinned |-> IF mutated # None THEN startColor ELSE None,
                   anchor |-> IF kind = "pointer" /\ tool = "bbox" /\ isDrawing /\ ~isDrawing'
                              THEN startPos ELSE None,
                   dragged |-> IF kind = "pointer" /\ tool = "select"
                                  /\ selectionStart # None /\ selectionStart' = None
                               THEN selectionRect ELSE None,
                   interrupted |-> /\ tool' # tool
                                   /\ \/ isDrawing
                                      \/ draftShape # None
                                      \/ polygonPoints # <<>>
                                      \/ selectionStart # None]
       /\ startColor' = IF kind = "pointerDown" /\ StartsDraw THEN Some(currentColor)
                        ELSE IF DrawInProgress(tool', isDrawing', polygonPoints') THEN startColor
                        ELSE None

NoHistory ==
    [kind |-> "other", mutated |-> None, restores |-> None, pinned |-> None, anchor |-> None,
     dragged |-> None, interrupted |-> FALSE]

-----------------------------------------------------------------------------
(* Run counters *)

\* The counts of the run after a step, read after History: shapes added by a
\* tool step, Ctrl/Cmd+Z keys that reached undoLastAnnotationChange and tool
\* steps that removed shapes (when counting), and the ids of the shapes
\* committed since the save request now in flight was sent
Tracked(counting) ==
    LET changed == last'.mutated # None
        added == changed /\ Len(annotations') = Len(annotations) + 1
        undone == last'.kind = "undoKey" /\ ~UndoRemovesVertex
        requested == \E k \in 1..Len(saves') : saves'[k].phase = "request"
    IN /\ run' = [adds |-> IF counting /\ added THEN run.adds + 1 ELSE run.adds,
                  undos |-> IF counting /\ undone THEN run.undos + 1 ELSE run.undos,
                  deletes |-> IF counting /\ changed /\ ~added THEN run.deletes + 1
                              ELSE run.deletes,
                  midSave |-> IF ~requested \/ Len(saves') > Len(saves) THEN {}
                              ELSE IF added THEN run.midSave \cup {Last(annotations').id}
                              ELSE run.midSave]
       \* a handler's step is no call of a geometry utility on its own
       /\ UNCHANGED call

NoRun == [adds |-> 0, undos |-> 0, deletes |-> 0, midSave |-> {}]

\* no call of a geometry utility recorded
NoCall == [fn |-> "none", args |-> <<>>, result |-> None]

-----------------------------------------------------------------------------
(* Events: the handlers with their inputs, pointer positions from P and at
   most ids generated ids *)

PointerDown(P, ids, counting) ==
    \E c \in P, sh \in BOOLEAN :
        MouseDown(c, sh) /\ History("pointerDown") /\ Tracked(counting) /\ nextId' <= ids + 1

PointerMove(P) ==
    \E c \in P : MouseMove(c) /\ History("pointer") /\ Tracked(FALSE)

PointerUp(P, ids, counting) ==
    \E c \in P, sh \in BOOLEAN :
        MouseUp(c, sh) /\ History("pointer") /\ Tracked(counting) /\ nextId' <= ids + 1

PointerLeave(P, ids) ==
    \E c \in P, sh \in BOOLEAN :
        MouseLeave(c, sh) /\ History("pointer") /\ Tracked(FALSE) /\ nextId' <= ids + 1

UndoKey(counting) == KeyUndo /\ History("undoKey") /\ Tracked(counting)

\* the finish button: shown with the polygon tool, enabled from three vertices
FinishButton(ids) ==
    /\ tool = "polygon"
    /\ Len(polygonPoints) >= 3
    /\ FinishPolygon /\ History("command") /\ Tracked(FALSE) /\ nextId' <= ids + 1

\* the delete-selection button, enabled while something is selected
DeleteButton(counting) ==
    /\ Len(selectedIds) > 0
    /\ DeleteSelected /\ History("command") /\ Tracked(counting)

-----------------------------------------------------------------------------
(* Initial states *)

\* the page with a dataset open and no item selected: the image grid
PageAtRestWith(held) ==
    /\ annotations = <<>>
    /\ tool = "bbox"
    /\ currentColor = COLORS[1]
    /\ selectedIds = <<>>
    /\ isDrawing = FALSE
    /\ startPos = None
    /\ draftShape = None
    /\ polygonPoints = <<>>
    /\ selectionRect = None
    /\ selectionStart = None
    /\ freehandPoints = <<>>
    /\ drawingColor = COLORS[1]
    /\ undoStack = <<>>
    /\ nextId = 1
    /\ selectedItemId = NoItem
    /\ itemDetail = None
    /\ server = held
    /\ items = [i \in 1..Len(ItemOrder) |->
                   [id |-> ItemOrder[i], annotationCount |-> Len(held[ItemOrder[i]])]]
    /\ savingAnnotations = FALSE
    /\ saves = <<>>
    /\ loads = <<>>
    /\ sameArray = FALSE
    /\ last = NoHistory
    /\ startColor = None
    /\ run = NoRun

PageAtRest == PageAtRestWith([i \in ItemIds |-> SeedAnnotations(i)])

InitPage == PageAtRest /\ call = NoCall

\* the editor opened on item: InitPage after handleSelectItem(item) and the
\* detail's arrival
InitOpenedWith(item, seed) ==
    /\ annotations = seed
    /\ tool = "bbox"
    /\ currentColor = COLORS[1]
    /\ selectedIds = <<>>
    /\ isDrawing = FALSE
    /\ startPos = None
    /\ draftShape = None
    /\ polygonPoints = <<>>
    /\ selectionRect = None
    /\ selectionStart = None
    /\ freehandPoints = <<>>
    /\ drawingColor = COLORS[1]
    /\ undoStack = <<>>
    /\ nextId = 1
    /\ selectedItemId = item
    /\ itemDetail = Some([id |-> item, annotations |-> seed])
    /\ server = [i \in ItemIds |-> IF i = item THEN seed ELSE SeedAnnotations(i)]
    /\ items = [i \in 1..Len(ItemOrder) |->
                   [id |-> ItemOrder[i],
                    annotationCount |-> IF ItemOrder[i] = item THEN Len(seed)
                                        ELSE Len(SeedAnnotations(ItemOrder[i]))]]
    /\ savingAnnotations = FALSE
    /\ saves = <<>>
    /\ loads = <<>>
    /\ sameArray = TRUE
    /\ last = NoHistory
    /\ startColor = None
    /\ run = NoRun
    /\ call = NoCall

InitOpened(item) == InitOpenedWith(item, SeedAnnotations(item))

-----------------------------------------------------------------------------
(* The editor session: every tool and command of the canvas on one image *)

handleMouseDown == PointerDown(PointerPositions, MaxIds, FALSE)
handleMouseMove == PointerMove(PointerPositions)
handleMouseUp == PointerUp(PointerPositions, MaxIds, FALSE)
handleMouseLeave == PointerLeave(PointerPositions, MaxIds)
handleKeyDown == UndoKey(FALSE)
\* the polygon buttons: shown with the polygon tool, enabled from three
\* vertices (finish) and from one (undo, clear)
handleFinishPolygon == FinishButton(MaxIds)
handleUndoPolygonPoint ==
    /\ tool = "polygon"
    /\ Len(polygonPoints) > 0
    /\ UndoPolygonPoint /\ History("command") /\ Tracked(FALSE)
handleClearPolygon ==
    /\ tool = "polygon"
    /\ Len(polygonPoints) > 0
    /\ ClearPolygon /\ History("command") /\ Tracked(FALSE)
handleDeleteSelected == DeleteButton(FALSE)
setTool == \E t \in Tools : SetTool(t) /\ History("other") /\ Tracked(FALSE)
setCurrentColor ==
    \E i \in 1..Len(COLORS) : SetCurrentColor(COLORS[i]) /\ History("other") /\ Tracked(FALSE)

Init == InitOpened("A")
Next ==
    \/ handleMouseDown
    \/ handleMouseMove
    \/ handleMouseUp
    \/ handleMouseLeave
    \/ handleKeyDown
    \/ handleFinishPolygon
    \/ handleUndoPolygonPoint
    \/ handleClearPolygon
    \/ handleDeleteSelected
    \/ setTool
    \/ setCurrentColor
Spec == Init /\ [][Next]_vars

-----------------------------------------------------------------------------
(* The undo run: on an image without annotations, boxes are dragged from
   (0, 0) to (10, 10) one after the other, the box just added may be deleted,
   and then Ctrl/Cmd+Z is pressed, at most once per box added *)

DragFrom == {Pt(0, 0)}
DragTo == {Pt(10, 10)}

RunDragStart ==
    /\ ~isDrawing
    /\ run.undos = 0
    /\ run.adds < MaxRunAdds
    /\ PointerDown(DragFrom, MaxRunAdds, TRUE)

RunDragEnd ==
    /\ isDrawing
    /\ PointerUp(DragTo, MaxRunAdds, TRUE)

RunDelete ==
    /\ ~isDrawing
    /\ run.undos = 0
    /\ run.deletes < MaxRunDeletes
    /\ DeleteButton(TRUE)

RunUndo ==
    /\ ~isDrawing
    /\ run.undos < run.adds
    /\ UndoKey(TRUE)

InitUndo == InitOpened("B")
NextUndo ==
    \/ RunDragStart
    \/ RunDragEnd
    \/ RunDelete
    \/ RunUndo
SpecUndo == InitUndo /\ [][NextUndo]_vars

-----------------------------------------------------------------------------
(* The save session: the page from the image grid on, with the bbox tool and
   Ctrl/Cmd+Z in the canvas *)

handleSaveClick == SaveClick /\ History("other") /\ Tracked(FALSE)
saveAnnotationsResolved ==
    \E k \in 1..MaxSaves : SaveSucceed(k) /\ History("other") /\ Tracked(FALSE)
saveAnnotationsRejected ==
    \E k \in 1..MaxSaves : SaveFail(k) /\ History("other") /\ Tracked(FALSE)
loadItemsReturned ==
    \E k \in 1..MaxSaves, listed \in BOOLEAN :
        SaveReloaded(k, listed) /\ History("other") /\ Tracked(FALSE)
handleSelectItem ==
    \E i \in ItemIds : SelectItem(i) /\ History("other") /\ Tracked(FALSE)
handleBackToImages == BackToImages /\ History("other") /\ Tracked(FALSE)
handleGoToNextPending == GoToNextPending /\ History("other") /\ Tracked(FALSE)
fetchItemDetailResolved ==
    \E k \in 1..MaxLoads : LoadResolve(k) /\ History("other") /\ Tracked(FALSE)
fetchItemDetailRejected ==
    \E k \in 1..MaxLoads : LoadFail(k) /\ History("other") /\ Tracked(FALSE)

SavePointerDown == PointerDown(PointerPositions, MaxSaveIds, FALSE)
SavePointerUp == PointerUp(PointerPositions, MaxSaveIds, FALSE)
SaveUndoKey == UndoKey(FALSE)

InitSave == InitPage
NextSave ==
    \/ handleSaveClick
    \/ saveAnnotationsResolved
    \/ saveAnnotationsRejected
    \/ loadItemsReturned
    \/ handleSelectItem
    \/ handleBackToImages
    \/ handleGoToNextPending
    \/ fetchItemDetailResolved
    \/ fetchItemDetailRejected
    \/ SavePointerDown
    \/ SavePointerUp
    \/ SaveUndoKey
SpecSave == InitSave /\ [][NextSave]_vars

-----------------------------------------------------------------------------
(* The bbox session: on an image without annotations, drags of the bbox tool
   between positions that are under, at and over the minimum size apart *)

BboxPositions == {Pt(10, 10), Pt(12, 11), Pt(18, 18), Pt(30, 25), Pt(30, 11)}

BboxPointerDown == PointerDown(BboxPositions, MaxBboxIds, FALSE)
BboxPointerMove == PointerMove(BboxPositions)
BboxPointerUp == PointerUp(BboxPositions, MaxBboxIds, FALSE)
BboxPointerLeave == PointerLeave(BboxPositions, MaxBboxIds)

InitBbox == InitOpened("B")
NextBbox ==
    \/ BboxPointerDown
    \/ BboxPointerMove
    \/ BboxPointerUp
    \/ BboxPointerLeave
SpecBbox == InitBbox /\ [][NextBbox]_vars

-----------------------------------------------------------------------------
(* The polygon session: on an image without annotations, the polygon tool is
   chosen and vertices are placed on positions near to and far from each other *)

PolygonPositions == {Pt(0, 0), Pt(10, 0), Pt(10, 10), Pt(2, 1), Pt(5, 5)}

PolygonSetTool ==
    \E t \in {"polygon"} : SetTool(t) /\ History("other") /\ Tracked(FALSE)
PolygonPointerDown ==
    /\ tool = "polygon"
    /\ PointerDown(PolygonPositions, MaxPolygonIds, FALSE)
PolygonFinish == FinishButton(MaxPolygonIds)
PolygonUndoKey == UndoKey(FALSE)

InitPolygon == InitOpened("B")
NextPolygon ==
    \/ PolygonSetTool
    \/ PolygonPointerDown
    \/ PolygonFinish
    \/ handleUndoPolygonPoint
    \/ handleClearPolygon
    \/ PolygonUndoKey
SpecPolygon == InitPolygon /\ [][NextPolygon]_vars

-----------------------------------------------------------------------------
(* The freehand session: on an image without annotations, the freehand tool is
   chosen and strokes are drawn over positions less than, exactly and more than
   2 px apart *)

FreehandPositions == {Pt(0, 0), Pt(1, 1), Pt(2, 0), Pt(10, 10)}

FreehandSetTool ==
    \E t \in {"freehand"} : SetTool(t) /\ History("other") /\ Tracked(FALSE)
FreehandPointerDown ==
    /\ tool = "freehand"
    /\ PointerDown(FreehandPositions, MaxFreehandIds, FALSE)
FreehandPointerMove == PointerMove(FreehandPositions)
FreehandPointerUp == PointerUp(FreehandPositions, MaxFreehandIds, FALSE)
FreehandPointerLeave == PointerLeave(FreehandPositions, MaxFreehandIds)

InitFreehand == InitOpened("B")
NextFreehand ==
    \/ FreehandSetTool
    \/ FreehandPointerDown
    \/ FreehandPointerMove
    \/ FreehandPointerUp
    \/ FreehandPointerLeave
SpecFreehand == InitFreehand /\ [][NextFreehand]_vars

-----------------------------------------------------------------------------
(* Calls of ensureClosed: the page is at rest, the arguments are drawn from
   paths of up to MaxPathLen points and from thresholds below, at and above
   the distances between the points *)

ClosePoints == {Pt(0, 0), Pt(3, 4), Pt(20, 0)}
CloseThresholds == {0 - 1, 0, 5, 12}

RECURSIVE PathsOf(_, _)
\* the paths of exactly n points over P
PathsOf(P, n) ==
    IF n = 0 THEN {<<>>}
    ELSE {Append(path, p) : path \in PathsOf(P, n - 1), p \in P}

ClosePaths == UNION {PathsOf(ClosePoints, n) : n \in 0..MaxPathLen}

\* the call is made: its result is what ensureClosed returns for its arguments
ensureClosedReturns ==
    /\ call.fn = "ensureClosed"
    /\ call.result = None
    /\ call' = [call EXCEPT !.result = Some(ensureClosed(call.args[1], call.args[2]))]
    /\ UNCHANGED <<evars, pvars, hvars, run>>

InitClose ==
    /\ PageAtRest
    /\ \E points \in ClosePaths, threshold \in CloseThresholds :
           call = [fn |-> "ensureClosed", args |-> <<points, threshold>>, result |-> None]
NextClose ==
    \/ ensureClosedReturns
SpecClose == InitClose /\ [][NextClose]_vars

-----------------------------------------------------------------------------
(* The select session: on the image with the seed box (0,0)-(20,20), a second
   box may be drawn, and the select tool clicks and drags over positions
   inside, at the edge of and outside the boxes *)

SelectPositions == {Pt(5, 5), Pt(8, 8), Pt(19, 19), Pt(20, 20), Pt(22, 22), Pt(40, 40)}

SelectSetTool ==
    \E t \in {"select", "bbox"} : SetTool(t) /\ History("other") /\ Tracked(FALSE)
SelectPointerDown == PointerDown(SelectPositions, MaxSelectIds, FALSE)
SelectPointerMove == PointerMove(SelectPositions)
SelectPointerUp == PointerUp(SelectPositions, MaxSelectIds, FALSE)

InitSelect == InitOpened("A")
NextSelect ==
    \/ SelectSetTool
    \/ SelectPointerDown
    \/ SelectPointerMove
    \/ SelectPointerUp
SpecSelect == InitSelect /\ [][NextSelect]_vars

-----------------------------------------------------------------------------
(* The edit session: on an image annotated before, shapes are selected, erased
   and deleted, and the changes undone; nothing is drawn *)

EditPositions == {Pt(5, 5), Pt(15, 15), Pt(20, 20), Pt(30, 30), Pt(40, 40)}

EditSetTool ==
    \E t \in {"select", "erase"} : SetTool(t) /\ History("other") /\ Tracked(FALSE)
EditPointerDown ==
    /\ tool \in {"select", "erase"}
    /\ PointerDown(EditPositions, 0, FALSE)
EditPointerMove == PointerMove(EditPositions)
EditPointerUp == PointerUp(EditPositions, 0, FALSE)
EditDelete == DeleteButton(FALSE)
EditUndoKey == UndoKey(FALSE)

InitEdit == InitOpenedWith("A", StackedAnnotations)
NextEdit ==
    \/ EditSetTool
    \/ EditPointerDown
    \/ EditPointerMove
    \/ EditPointerUp
    \/ EditDelete
    \/ EditUndoKey
SpecEdit == InitEdit /\ [][NextEdit]_vars

-----------------------------------------------------------------------------
(* The seed session: the image annotated before is opened from the grid,
   shapes are selected or erased, and the collection is saved *)

InitSeed ==
    /\ PageAtRestWith([i \in ItemIds |->
                          IF i = "A" THEN StackedAnnotations ELSE SeedAnnotations(i)])
    /\ call = NoCall
NextSeed ==
    \/ handleSelectItem
    \/ fetchItemDetailResolved
    \/ handleBackToImages
    \/ handleSaveClick
    \/ saveAnnotationsResolved
    \/ loadItemsReturned
    \/ EditSetTool
    \/ EditPointerDown
    \/ EditPointerUp
SpecSeed == InitSeed /\ [][NextSeed]_vars

-----------------------------------------------------------------------------
(* Calls of rectsIntersect and isPointInPolygon: the page is at rest; the
   rectangles have sides of length 0, 5 and 10 on a grid of 5, the polygons
   are the square of side 10, open and closed, and every path of 3 to
   MaxPathLen of its corners *)

RectOrigins == {0, 5, 10}
RectSizes == {0, 5, 10}
Rects == [x : RectOrigins, y : RectOrigins, width : RectSizes, height : RectSizes]

SQUARE == <<Pt(0, 0), Pt(10, 0), Pt(10, 10), Pt(0, 10)>>
Polygons ==
    {SQUARE, Append(SQUARE, SQUARE[1])}
        \cup UNION {PathsOf(Range(SQUARE), n) : n \in 3..MaxPathLen}
ProbePoints == {Pt(5, 5), Pt(15, 5), Pt(10, 5), Pt(5, 10), Pt(0, 0), Pt(3, 7)}

rectsIntersectReturns ==
    /\ call.fn = "rectsIntersect"
    /\ call.result = None
    /\ call' = [call EXCEPT !.result = Some(rectsIntersect(call.args[1], call.args[2]))]
    /\ UNCHANGED <<evars, pvars, hvars, run>>

isPointInPolygonReturns ==
    /\ call.fn = "isPointInPolygon"
    /\ call.result = None
    /\ call' = [call EXCEPT !.result = Some(isPointInPolygon(call.args[1], call.args[2]))]
    /\ UNCHANGED <<evars, pvars, hvars, run>>

InitGeometry ==
    /\ PageAtRest
    /\ \/ \E a \in Rects, b \in Rects :
              call = [fn |-> "rectsIntersect", args |-> <<a, b>>, result |-> None]
       \/ \E point \in ProbePoints, polygon \in Polygons :
              call = [fn |-> "isPointInPolygon", args |-> <<point, polygon>>,
                      result |-> None]
NextGeometry ==
    \/ rectsIntersectReturns
    \/ isPointInPolygonReturns
SpecGeometry == InitGeometry /\ [][NextGeometry]_vars

-----------------------------------------------------------------------------
(* Claims checked on the editor session (Spec) *)

\* the step just taken added a shape to the collection
JustAdded ==
    /\ last.mutated # None
    /\ Len(annotations) = Len(last.mutated[1]) + 1

\* C3: a global undo issued right after a committed mutation (a shape added
\* by a tool, a shape erased, a bulk delete) makes the collection equal to the
\* collection just before that mutation, shape for shape and in order.
C3_UndoRestoresCollection ==
    last.restores # None => annotations = last.restores[1]

\* C3 witness: an undo has just restored a non-empty collection, with older
\* snapshots still on the stack
C3_Witness ==
    /\ last.restores # None
    /\ Len(last.restores[1]) >= 1
    /\ Len(undoStack) >= 1

\* C4: a step of a tool, of erase or of bulk delete that changes the collection
\* pushes exactly one snapshot, equal to the collection before the step (the
\* oldest snapshot leaving when the stack is full).
C4_MutationPushesSnapshot ==
    [][last'.mutated # None =>
          undoStack' = IF Len(undoStack) < 50
                       THEN Append(undoStack, annotations)
                       ELSE Append(Tail(undoStack), annotations)]_vars

\* C4 witness: a shape has just been removed, with two snapshots on the stack
C4_Witness ==
    /\ last.mutated # None
    /\ Len(annotations) < Len(last.mutated[1])
    /\ Len(undoStack) >= 2

\* C7: Ctrl/Cmd+Z with the polygon tool active and at least one vertex placed
\* removes exactly the last vertex and leaves the collection and the undo stack
\* alone; otherwise it leaves the in-progress list alone.
C7_UndoKeyPolygonFirst ==
    [][last'.kind = "undoKey" =>
          IF tool = "polygon" /\ Len(polygonPoints) >= 1
          THEN /\ polygonPoints' = SubSeq(polygonPoints, 1, Len(polygonPoints) - 1)
               /\ annotations' = annotations
               /\ undoStack' = undoStack
          ELSE polygonPoints' = polygonPoints]_vars

\* C7 witness: the key has just removed a vertex and left one, while the undo
\* stack held a snapshot it could have popped
C7_Witness ==
    /\ last.kind = "undoKey"
    /\ tool = "polygon"
    /\ Len(polygonPoints) >= 1
    /\ Len(undoStack) >= 1

\* C8: a global undo with an empty undo stack changes neither the collection,
\* the selection, the draft shape nor the stack.
C8_UndoOnEmptyIsNoOp ==
    [][(/\ last'.kind = "undoKey"
        /\ ~(tool = "polygon" /\ Len(polygonPoints) >= 1)
        /\ undoStack = <<>>) =>
          /\ annotations' = annotations
          /\ selectedIds' = selectedIds
          /\ draftShape' = draftShape
          /\ undoStack' = undoStack]_vars

\* C8 witness: after a global undo the stack is empty and a shape is still
\* selected (an undo that popped would have emptied the selection)
C8_Witness ==
    /\ last.kind = "undoKey"
    /\ tool # "polygon"
    /\ undoStack = <<>>
    /\ Len(selectedIds) >= 1
    /\ Len(annotations) >= 1

\* C9: a shape committed by the freehand or polygon tool has the palette color
\* that was selected when its draw started, whatever the palette did since.
C9_PinnedColorFreehandPolygon ==
    (JustAdded /\ Last(annotations).type \in {"freehand", "polygon"}) =>
        /\ last.pinned # None
        /\ Last(annotations).color = last.pinned[1]

\* C9 witness: a freehand or polygon shape was just committed in a color other
\* than the palette's current one
C9_Witness ==
    /\ JustAdded
    /\ Last(annotations).type \in {"freehand", "polygon"}
    /\ Last(annotations).color # currentColor

\* C10: a shape committed by the bbox tool has the palette color that was
\* selected at pointer-down.
C10_PinnedColorBbox ==
    (JustAdded /\ Last(annotations).type = "bbox") =>
        /\ last.pinned # None
        /\ Last(annotations).color = last.pinned[1]

\* C25: a step that changes the tool leaves no draft shape, no polygon
\* vertices, no selection rectangle, no drag origin or anchor, an empty
\* freehand buffer and no draw in progress, whatever was in progress before.
C25_ToolSwitchResets ==
    [][tool' # tool =>
          /\ draftShape' = None
          /\ polygonPoints' = <<>>
          /\ selectionRect' = None
          /\ selectionStart' = None
          /\ startPos' = None
          /\ freehandPoints' = <<>>
          /\ ~isDrawing']_vars

\* C25 witness: the tool was switched to erase in the middle of an
\* interaction, and nothing of it is left
C25_Witness ==
    /\ last.interrupted
    /\ tool = "erase"
    /\ ~isDrawing
    /\ draftShape = None
    /\ polygonPoints = <<>>
    /\ selectionStart = None

\* C39: a step that changes the tool leaves the collection and the undo stack
\* as they are; it keeps the selection when the new tool is select and empties
\* it when the new tool is any other.
C39_ToolSwitchFrame ==
    [][tool' # tool =>
          /\ UNCHANGED <<annotations, undoStack>>
          /\ selectedIds' = IF tool' = "select" THEN selectedIds ELSE <<>>]_vars

\* C39 witness: the select tool was chosen in the middle of a draw that
\* followed a commit, and the shape committed is still selected
C39_Witness ==
    /\ last.interrupted
    /\ tool = "select"
    /\ selectedIds # <<>>
    /\ undoStack # <<>>

\* C27: no shape of the collection carries a draft id; the draft is one
\* shape at most, carries a draft id, and is kept apart from the collection.
C27_DraftsStayOutOfCollection ==
    /\ \A i \in 1..Len(annotations) :
           annotations[i].id \notin {DRAFT_BBOX, DRAFT_FREEHAND, DRAFT_POLYGON}
    /\ Len(draftShape) <= 1
    /\ draftShape # None =>
           /\ draftShape[1].id \in {DRAFT_BBOX, DRAFT_FREEHAND}
           /\ draftShape[1] \notin Range(annotations)

\* C27 witness: a freehand draft is on screen over a collection of two shapes
C27_Witness ==
    /\ draftShape # None
    /\ draftShape[1].id = DRAFT_FREEHAND
    /\ Len(draftShape[1].points) = 2
    /\ Len(annotations) = 2

\* C28: every polygon and every freehand shape of the collection has two or
\* more points, the first equal to the last.
C28_CommittedPathsClosed ==
    \A i \in 1..Len(annotations) :
        annotations[i].type \in {"polygon", "freehand"} =>
            /\ Len(annotations[i].points) >= 2
            /\ annotations[i].points[1] = Last(annotations[i].points)

\* C28 witness: a freehand stroke from (0,0) over (10,10) and back was
\* committed closed
C28_Witness ==
    /\ Len(annotations) = 2
    /\ annotations[2].type = "freehand"
    /\ annotations[2].points = <<Pt(0, 0), Pt(10, 10), Pt(0, 0)>>
    /\ selectedIds = <<annotations[2].id>>

\* C34: every id of the selection is the id of a shape of the collection.
C34_SelectionWithinCollection ==
    Range(selectedIds) \subseteq IdsOf(annotations)

\* C34 witness: the seed box and a shape added after it are both selected
C34_Witness ==
    /\ Len(annotations) = 2
    /\ Len(selectedIds) = 2
    /\ undoStack # <<>>

-----------------------------------------------------------------------------
(* Claims checked on the undo run (SpecUndo) *)

\* C1: the undo stack never holds more than 50 snapshots; a push onto a stack
\* of 50 leaves 50, the former oldest gone and the other 49 in their order
\* below the new one.
C1_UndoStackBounded ==
    [][/\ Len(undoStack') <= 50
       /\ (last'.mutated # None /\ Len(undoStack) = 50) =>
              /\ Len(undoStack') = 50
              /\ SubSeq(undoStack', 1, 49) = Tail(undoStack)]_vars

\* C1 witness: a push has just been made onto a full stack: the stack holds 50
\* snapshots and its oldest is no longer the empty collection the run began with
C1_Witness ==
    /\ last.mutated # None
    /\ Len(undoStack) = 50
    /\ undoStack[1] # <<>>

\* C2: from an empty collection and an empty stack, n additions followed by n
\* global undos leave max(0, n - 50) shapes: the first ones added, in order.
C2_AddsThenUndos ==
    (run.deletes = 0 /\ run.undos = run.adds) =>
        /\ Len(annotations) = IF run.adds > 50 THEN run.adds - 50 ELSE 0
        /\ \A i \in 1..Len(annotations) : annotations[i].id = GenId(i)

\* C2 witness: 51 additions and 51 undos have left exactly one shape
C2_Witness ==
    /\ run.deletes = 0
    /\ run.adds = 51
    /\ run.undos = 51
    /\ Len(annotations) = 1

-----------------------------------------------------------------------------
(* Claims checked on the save session (SpecSave) *)

\* the step is the successful completion of a save request for the image that
\* is selected and shown in the canvas
SaveCompletes ==
    \E k \in 1..Len(saves) :
        /\ saves[k].phase = "request"
        /\ Len(saves') = Len(saves)
        /\ saves'[k].phase = "reload"
        /\ itemDetail # None
        /\ itemDetail[1].id = saves[k].detail.id
        /\ selectedItemId = saves[k].detail.id

\* C5: a shape committed after a save was triggered, and in the collection
\* when the save completes successfully, is still in the collection afterwards
\* (the image the save was made for being the one selected and shown).
C5_MidSaveCommitsSurvive ==
    [][SaveCompletes =>
          (run.midSave \cap IdsOf(annotations)) \subseteq IdsOf(annotations')]_vars

\* C6: at most one save request is in flight, and the saving flag is true
\* exactly while one is: from the click until the handler has finished, after
\* success and after failure alike.
C6_OneSaveInFlight ==
    /\ Len(saves) <= 1
    /\ savingAnnotations <=> Len(saves) = 1

\* C6 witness: a save has gone through (the server holds what it sent), the
\* flag is false again and the canvas, with its save button, is shown
C6_Witness ==
    /\ Mounted
    /\ ~savingAnnotations
    /\ saves = <<>>
    /\ \E i \in ItemIds : server[i] # SeedAnnotations(i)

\* the step gives the mounted editor another item or another annotation list
ItemPropChanged ==
    /\ itemDetail # None
    /\ itemDetail' # None
    /\ \/ itemDetail'[1].id # itemDetail[1].id
       \/ \E k \in 1..MaxLoads : LoadResolve(k)
       \/ \E k \in 1..MaxSaves : SaveSucceed(k) /\ ~saves[k].sameAsItem

\* C26: when the editor is given another image or another annotation list,
\* the draft, the undo stack, the selection and every drawing in progress
\* (polygon vertices, freehand buffer, bbox anchor) are discarded and the
\* collection is the list supplied.
C26_ReseedDiscardsTransientState ==
    [][ItemPropChanged =>
          /\ annotations' = itemDetail'[1].annotations
          /\ draftShape' = None
          /\ undoStack' = <<>>
          /\ selectedIds' = <<>>
          /\ polygonPoints' = <<>>
          /\ freehandPoints' = <<>>
          /\ startPos' = None
          /\ ~isDrawing']_vars

\* C37: the successful completion of a save (the image the save was made for
\* being the one selected and shown) leaves the undo stack and the selection as
\* they are, so that what could be undone before can be undone after.
C37_SaveKeepsUndoHistory ==
    [][SaveCompletes => UNCHANGED <<undoStack, selectedIds>>]_vars

\* C38: while an image is selected and no detail request is under way, the
\* item detail the editor shows is that of the selected image, whatever save
\* completed in the meantime.
C38_DetailIsOfSelectedImage ==
    (selectedItemId # NoItem /\ loads = <<>> /\ itemDetail # None) =>
        itemDetail[1].id = selectedItemId

-----------------------------------------------------------------------------
(* Claims checked on the bbox session (SpecBbox) *)

\* the step is the release at c, by pointer-up or pointer-leave, of a bbox drag
BboxRelease(c) ==
    /\ tool = "bbox"
    /\ isDrawing
    /\ startPos # None
    /\ \E sh \in BOOLEAN : MouseUp(c, sh) \/ MouseLeave(c, sh)

\* C11: the release at r of a bbox drag anchored at a adds one bbox and one
\* snapshot when |r.x - a.x| >= 8 and |r.y - a.y| >= 8, and otherwise leaves
\* the collection and the undo stack as they are.
C11_BboxMinimumSize ==
    [][\A r \in BboxPositions :
          BboxRelease(r) =>
              LET a == startPos[1]
                  dx == IF r.x >= a.x THEN r.x - a.x ELSE a.x - r.x
                  dy == IF r.y >= a.y THEN r.y - a.y ELSE a.y - r.y
              IN IF dx >= 8 /\ dy >= 8
                 THEN /\ Len(annotations') = Len(annotations) + 1
                      /\ SubSeq(annotations', 1, Len(annotations)) = annotations
                      /\ Last(annotations').type = "bbox"
                      /\ Len(undoStack') = Len(undoStack) + 1
                 ELSE /\ annotations' = annotations
                      /\ undoStack' = undoStack]_vars

\* C11 witness: a drag anchored at (10,10) has just been released under the
\* minimum size, and nothing was created
C11_Witness ==
    /\ last.anchor = Some(Pt(10, 10))
    /\ last.mutated = None
    /\ draftShape = None
    /\ annotations = <<>>
    /\ undoStack = <<>>

\* C12: a bbox committed by a drag from a to r has x = min(a.x, r.x),
\* y = min(a.y, r.y), width = |r.x - a.x| and height = |r.y - a.y|.
C12_BboxGeometry ==
    [][\A r \in BboxPositions :
          (BboxRelease(r) /\ Len(annotations') = Len(annotations) + 1) =>
              LET a == startPos[1]
                  box == Last(annotations').bbox[1]
              IN /\ box.x = IF a.x <= r.x THEN a.x ELSE r.x
                 /\ box.y = IF a.y <= r.y THEN a.y ELSE r.y
                 /\ box.width = IF r.x >= a.x THEN r.x - a.x ELSE a.x - r.x
                 /\ box.height = IF r.y >= a.y THEN r.y - a.y ELSE a.y - r.y
                 /\ box.width >= 0 /\ box.height >= 0]_vars

\* C12 witness: the drag (30,25) -> (10,10), against both axes, has just
\* committed the box x=10, y=10, width=20, height=15
C12_Witness ==
    /\ last.anchor = Some(Pt(30, 25))
    /\ last.mutated # None
    /\ Last(annotations).bbox = Some([x |-> 10, y |-> 10, width |-> 20, height |-> 15])

-----------------------------------------------------------------------------
(* Claims checked on the polygon session (SpecPolygon) *)

\* the step is a pointer-down at c with the polygon tool
PolygonClick(c) ==
    /\ tool = "polygon"
    /\ \E sh \in BOOLEAN : MouseDown(c, sh)

\* C13: a pointer-down within 14 px of the first vertex, with three or more
\* vertices placed, commits exactly the placed vertices followed by a copy of
\* the first, and empties the in-progress list.
C13_CloseClickKeepsVertices ==
    [][\A c \in PolygonPositions :
          (PolygonClick(c) /\ Len(polygonPoints) >= 3
              /\ Dist2(c, polygonPoints[1]) <= 14 * 14) =>
              /\ Len(annotations') = Len(annotations) + 1
              /\ Last(annotations').points = Append(polygonPoints, polygonPoints[1])
              /\ polygonPoints' = <<>>]_vars

\* C14: with fewer than three vertices placed, the finish command creates no
\* shape, and a pointer-down, near the first vertex or not, appends its point
\* as a vertex; neither changes the collection, the undo stack or the selection.
C14_FewerThanThreeVertices ==
    [][Len(polygonPoints) < 3 =>
          /\ (tool = "polygon" /\ FinishPolygon) =>
                 UNCHANGED <<annotations, undoStack, selectedIds, polygonPoints>>
          /\ \A c \in PolygonPositions :
                 PolygonClick(c) =>
                     /\ polygonPoints' = Append(polygonPoints, c)
                     /\ UNCHANGED <<annotations, undoStack, selectedIds>>]_vars

\* C14 witness: the third vertex, (2,1), was placed 2.2 px from the first, and
\* nothing was committed
C14_Witness ==
    /\ polygonPoints = <<Pt(0, 0), Pt(10, 0), Pt(2, 1)>>
    /\ annotations = <<>>
    /\ undoStack = <<>>

\* C15: placing a vertex, removing the last vertex and clearing the polygon in
\* progress leave the collection and the undo stack as they are.
C15_VertexEditsNotSnapshotted ==
    [][(\/ \E c \in PolygonPositions : PolygonClick(c) /\ ~PolygonCloses(c)
        \/ tool = "polygon" /\ UndoPolygonPoint
        \/ tool = "polygon" /\ ClearPolygon) =>
          UNCHANGED <<annotations, undoStack>>]_vars

\* C15 witness: vertices are being placed after a polygon was committed: the
\* collection and the stack still hold what the commit left
C15_Witness ==
    /\ Len(polygonPoints) >= 1
    /\ Len(annotations) = 1
    /\ undoStack = << <<>> >>

\* C35: a step that commits a polygon commits a point list that starts with
\* the vertices placed, in the order they were placed, the last one included
\* when it lies within 14 px of the first.
C35_PlacedVerticesKept ==
    [][(tool = "polygon" /\ Len(annotations') = Len(annotations) + 1) =>
          /\ Len(Last(annotations').points) >= Len(polygonPoints)
          /\ SubSeq(Last(annotations').points, 1, Len(polygonPoints)) = polygonPoints]_vars

-----------------------------------------------------------------------------
(* Claims checked on the freehand session (SpecFreehand) *)

\* the step ends a freehand draw at c, by pointer-up or by pointer-leave
FreehandRelease(c) ==
    /\ tool = "freehand"
    /\ isDrawing
    /\ \E sh \in BOOLEAN : MouseUp(c, sh) \/ MouseLeave(c, sh)

\* C16: a freehand draw that ends by pointer-up or by pointer-leave appends
\* the point of that event to the buffer whatever its distance, and commits
\* the stroke exactly when the buffer then holds two or more points.
C16_ReleaseForcesFinalPoint ==
    [][\A c \in FreehandPositions :
          FreehandRelease(c) =>
              LET buffer == Append(freehandPoints, c)
              IN IF Len(buffer) >= 2
                 THEN /\ Len(annotations') = Len(annotations) + 1
                      /\ Last(annotations').points = ensureClosed(buffer, FREEHAND_CLOSE_DISTANCE)
                 ELSE annotations' = annotations]_vars

\* the step is a pointer-move at c during a freehand draw
FreehandSample(c) ==
    /\ tool = "freehand"
    /\ isDrawing
    /\ MouseMove(c)

\* C17: during a freehand draw a pointer-move appends its point exactly when
\* it is 2 px or more from the last point of the buffer, so consecutive points
\* of the buffer are 2 px or more apart; the buffer starts with the point of
\* the pointer-down.
C17_FreehandSampling ==
    /\ [](\A i \in 1..(Len(freehandPoints) - 1) :
              Dist2(freehandPoints[i], freehandPoints[i + 1]) >= 2 * 2)
    /\ [][\A c \in FreehandPositions :
             FreehandSample(c) =>
                 /\ Len(freehandPoints) >= 1
                 /\ freehandPoints' = IF Dist2(c, Last(freehandPoints)) >= 2 * 2
                                       THEN Append(freehandPoints, c)
                                       ELSE freehandPoints]_vars

\* C17 witness: a draw in progress whose second point was sampled exactly
\* 2 px from the first
C17_Witness ==
    /\ tool = "freehand"
    /\ isDrawing
    /\ freehandPoints = <<Pt(0, 0), Pt(2, 0)>>

\* C36: every committed freehand shape holds two distinct points or more, and
\* a pointer-up at the position of the pointer-down, with no point sampled in
\* between, commits no shape and pushes no snapshot.
C36_ClickCommitsNothing ==
    /\ [](\A i \in 1..Len(annotations) :
              annotations[i].type = "freehand" =>
                  Cardinality(Range(annotations[i].points)) >= 2)
    /\ [][\A c \in FreehandPositions :
             (/\ tool = "freehand"
              /\ isDrawing
              /\ freehandPoints = <<c>>
              /\ \E sh \in BOOLEAN : MouseUp(c, sh)) =>
                 UNCHANGED <<annotations, undoStack>>]_vars

-----------------------------------------------------------------------------
(* Claims checked on the calls of ensureClosed (SpecClose) *)

\* a call of ensureClosed has returned
Closed == call.fn = "ensureClosed" /\ call.result # None

\* C18: ensureClosed returns, for a path of two or more points and any
\* threshold, a path whose first and last points are equal, and for a path of
\* fewer than two points the path it was given.
C18_ResultIsClosed ==
    Closed =>
        LET points == call.args[1]
            result == call.result[1]
        IN IF Len(points) >= 2
           THEN Len(result) >= 1 /\ result[1] = result[Len(result)]
           ELSE result = points

\* C18 witness: an open path of three points was closed under a negative
\* threshold
C18_Witness ==
    /\ Closed
    /\ call.args = << <<Pt(0, 0), Pt(20, 0), Pt(3, 4)>>, 0 - 1 >>
    /\ call.result[1][4] = Pt(0, 0)

\* C19: on a path of two or more points ensureClosed returns the path itself
\* when its ends coincide, the path with its last point replaced by the first
\* when the ends are apart by no more than the threshold, and the path with
\* the first point appended when they are further apart than the threshold.
C19_ThreeCases ==
    (Closed /\ Len(call.args[1]) >= 2) =>
        LET points == call.args[1]
            threshold == call.args[2]
            result == call.result[1]
            n == Len(points)
            d2 == Dist2(points[1], points[n])
            within == threshold >= 0 /\ d2 <= threshold * threshold
        IN /\ d2 = 0 => result = points
           /\ (d2 > 0 /\ within) =>
                  /\ Len(result) = n
                  /\ result[n] = points[1]
                  /\ \A i \in 1..(n - 1) : result[i] = points[i]
           /\ (d2 > 0 /\ ~within) =>
                  /\ Len(result) = n + 1
                  /\ result[n + 1] = points[1]
                  /\ \A i \in 1..n : result[i] = points[i]

\* C19 witness: the last point, 5 px from the first, was replaced under the
\* threshold 5
C19_Witness ==
    /\ Closed
    /\ call.args = << <<Pt(0, 0), Pt(20, 0), Pt(3, 4)>>, 5 >>
    /\ call.result = Some(<<Pt(0, 0), Pt(20, 0), Pt(0, 0)>>)

-----------------------------------------------------------------------------
(* Claims checked on the select session (SpecSelect) *)

\* the step is a pointer-up at c that ends a select drag whose rectangle, as
\* the moves left it, is below 5 px in both dimensions
SmallDragRelease(c, shiftKey) ==
    /\ tool = "select"
    /\ selectionStart # None
    /\ selectionRect # None
    /\ selectionRect[1].width < 5
    /\ selectionRect[1].height < 5
    /\ MouseUp(c, shiftKey)

\* C20: a pointer-up that ends a select drag smaller than 5 px is decided by
\* the topmost shape at the point alone: a hit without the extend-modifier
\* selects exactly that shape, a hit with it toggles that shape and keeps the
\* other members, a miss without it empties the selection.
C20_SmallDragIsClick ==
    [][\A c \in SelectPositions, shiftKey \in BOOLEAN :
          SmallDragRelease(c, shiftKey) =>
              LET found == findAnnotationAt(c)
                  members == Range(selectedIds)
              IN /\ (found # None /\ ~shiftKey) => selectedIds' = <<found[1]>>
                 /\ (found # None /\ shiftKey) =>
                        /\ Range(selectedIds') =
                               IF found[1] \in members THEN members \ {found[1]}
                               ELSE members \cup {found[1]}
                        /\ Len(selectedIds') = Cardinality(Range(selectedIds'))
                 /\ (found = None /\ ~shiftKey) => selectedIds' = <<>>]_vars

\* C20 witness: a 3x3 drag that crossed the corner of the seed box has been
\* released, and nothing is selected
C20_Witness ==
    /\ tool = "select"
    /\ last.dragged = Some([x |-> 19, y |-> 19, width |-> 3, height |-> 3])
    /\ Len(annotations) = 1
    /\ selectedIds = <<>>

\* the step is a pointer-up at c that ends a select drag whose rectangle, as
\* the moves left it, is 5 px or more in one dimension
LargeDragRelease(c, shiftKey) ==
    /\ tool = "select"
    /\ selectionStart # None
    /\ selectionRect # None
    /\ (selectionRect[1].width >= 5 \/ selectionRect[1].height >= 5)
    /\ MouseUp(c, shiftKey)

\* C21: a pointer-up that ends a select drag of 5 px or more selects the
\* shapes whose bounds overlap the rectangle (touching edges do not count):
\* exactly those without the extend-modifier, the previous selection and
\* those with it.
C21_AreaSelection ==
    [][\A c \in SelectPositions, shiftKey \in BOOLEAN :
          LargeDragRelease(c, shiftKey) =>
              LET r == selectionRect[1]
                  inside == {i \in 1..Len(annotations) :
                                LET bounds == computeShapeBounds(annotations[i])
                                IN /\ bounds # None
                                   /\ r.x < bounds[1].x + bounds[1].width
                                   /\ r.x + r.width > bounds[1].x
                                   /\ r.y < bounds[1].y + bounds[1].height
                                   /\ r.y + r.height > bounds[1].y}
                  matches == {annotations[i].id : i \in inside}
              IN /\ Len(selectedIds') = Cardinality(Range(selectedIds'))
                 /\ Range(selectedIds') = IF shiftKey THEN Range(selectedIds) \cup matches
                                          ELSE matches]_vars

\* C21 witness: a drag of 5 px or more has been released and both shapes of
\* the collection are selected
C21_Witness ==
    /\ tool = "select"
    /\ last.dragged # None
    /\ last.dragged[1].width >= 5
    /\ Len(annotations) = 2
    /\ Len(selectedIds) = 2

-----------------------------------------------------------------------------
(* Claims checked on the edit session (SpecEdit) *)

\* the positions from the oldest of the shapes that match the point
HitsAt(point) == {i \in 1..Len(annotations) : ShapeHit(annotations[i], point)}

\* the largest of a non-empty set of positions
Topmost(hits) == CHOOSE i \in hits : \A j \in hits : j <= i

\* the step is a pointer-down at c with the erase tool
ErasePress(c) ==
    /\ tool = "erase"
    /\ \E sh \in BOOLEAN : MouseDown(c, sh)

\* C22: an erase pointer-down over one or more shapes removes the topmost of
\* them and no other, keeps the order of the rest, pushes one snapshot and
\* takes the id out of the selection; over no shape it leaves the collection
\* and the undo stack as they are.
C22_EraseRemovesTopmost ==
    [][\A c \in EditPositions :
          ErasePress(c) =>
              IF HitsAt(c) = {}
              THEN UNCHANGED <<annotations, undoStack>>
              ELSE LET top == Topmost(HitsAt(c))
                   IN /\ annotations' = [i \in 1..(Len(annotations) - 1) |->
                                            IF i < top THEN annotations[i]
                                            ELSE annotations[i + 1]]
                      /\ undoStack' = Append(undoStack, annotations)
                      /\ Range(selectedIds') = Range(selectedIds) \ {annotations[top].id}]_vars

\* C22 witness: the erase tool has removed the upper of the two boxes, the last
\* of the collection, and the stack holds the collection as it was
C22_Witness ==
    /\ tool = "erase"
    /\ annotations = <<StackedAnnotations[1], StackedAnnotations[2]>>
    /\ undoStack = <<StackedAnnotations>>

\* C23: the hit test returns, of the shapes that match the point, the one
\* added last, and nothing when none matches; a box matches the points on its
\* edges.
C23_HitTestTopmost ==
    \A p \in EditPositions :
        /\ findAnnotationAt(p) = IF HitsAt(p) = {} THEN None
                                 ELSE Some(annotations[Topmost(HitsAt(p))].id)
        /\ \A i \in 1..Len(annotations) :
               (/\ annotations[i].bbox # None
                /\ p.x \in {annotations[i].bbox[1].x,
                            annotations[i].bbox[1].x + annotations[i].bbox[1].width}
                /\ p.y \in {annotations[i].bbox[1].y,
                            annotations[i].bbox[1].y + annotations[i].bbox[1].height})
               => /\ i \in HitsAt(p)
                  /\ findAnnotationAt(p) # None

\* C23 witness: a click on (30,30), a corner of the upper box, has selected it
C23_Witness ==
    /\ tool = "select"
    /\ last.dragged = Some([x |-> 30, y |-> 30, width |-> 0, height |-> 0])
    /\ annotations = StackedAnnotations
    /\ selectedIds = <<StackedAnnotations[3].id>>

\* C24: the delete command with a selection removes all selected shapes in
\* one step, keeps the others in their order, pushes one snapshot and empties
\* the selection; without a selection it changes nothing.
C24_BulkDelete ==
    [][DeleteSelected =>
          IF selectedIds = <<>>
          THEN UNCHANGED <<annotations, undoStack, selectedIds>>
          ELSE LET Unselected(shape) == shape.id \notin Range(selectedIds)
               IN /\ annotations' = SelectSeq(annotations, Unselected)
                  /\ undoStack' = Append(undoStack, annotations)
                  /\ selectedIds' = <<>>]_vars

\* C24 witness: both boxes were deleted in one step: one snapshot, and the
\* shape that was not selected remains
C24_Witness ==
    /\ tool = "select"
    /\ annotations = <<StackedAnnotations[2]>>
    /\ undoStack = <<StackedAnnotations>>
    /\ selectedIds = <<>>

\* C29: the shape without bbox and without points has no bounds, is returned
\* by no hit test, is never selected, and stays in the collection whatever is
\* selected, erased or deleted.
C29_InertShape ==
    /\ \E i \in 1..Len(annotations) :
           /\ annotations[i].id = INERT_ID
           /\ computeShapeBounds(annotations[i]) = None
    /\ INERT_ID \notin Range(selectedIds)
    /\ \A p \in EditPositions : findAnnotationAt(p) # Some(INERT_ID)

\* C29 witness: a selection rectangle from (5,5) to (40,40) has been released
\* and the two boxes, not the shape between them, are selected
C29_Witness ==
    /\ last.dragged = Some([x |-> 5, y |-> 5, width |-> 35, height |-> 35])
    /\ annotations = StackedAnnotations
    /\ selectedIds = <<StackedAnnotations[1].id, StackedAnnotations[3].id>>

-----------------------------------------------------------------------------
(* Claims checked on the seed session (SpecSeed) *)

\* C30: while the editor's array is the one it was seeded with (no edit was
\* made), the collection is the seed list, shape for shape in the same order,
\* and that list is what a save click hands over.
C30_SeedRoundTrip ==
    /\ []((itemDetail # None /\ sameArray) =>
             /\ Len(annotations) = Len(itemDetail[1].annotations)
             /\ \A i \in 1..Len(annotations) :
                    annotations[i] = itemDetail[1].annotations[i])
    /\ [][(SaveClick /\ sameArray) =>
             saves'[Len(saves')].annotations = itemDetail[1].annotations]_vars

\* C30 witness: the stacked image was opened, a shape was selected, and a save
\* in flight carries the three shapes as the server supplied them
C30_Witness ==
    /\ sameArray
    /\ selectedIds # <<>>
    /\ Len(saves) = 1
    /\ saves[1].phase = "request"
    /\ saves[1].annotations = StackedAnnotations
    /\ annotations = StackedAnnotations

-----------------------------------------------------------------------------
(* Claims checked on the calls of rectsIntersect and isPointInPolygon
   (SpecGeometry) *)

\* a call of the geometry utility fn has returned
Returned(fn) == call.fn = fn /\ call.result # None

\* do the open intervals (a.x, a.x + a.width) and (b.x, b.x + b.width), and
\* those of the other axis, overlap
OpenInteriorsOverlap(a, b) ==
    /\ Max2(a.x, b.x) < Min2(a.x + a.width, b.x + b.width)
    /\ Max2(a.y, b.y) < Min2(a.y + a.height, b.y + b.height)

\* does one rectangle end, on some axis, where the other begins
Abut(a, b) ==
    \/ a.x + a.width = b.x
    \/ b.x + b.width = a.x
    \/ a.y + a.height = b.y
    \/ b.y + b.height = a.y

\* C31 as stated: rectsIntersect is true exactly when the open interiors of
\* the two rectangles overlap on both axes.
C31_OpenInteriorsExactly ==
    Returned("rectsIntersect") =>
        call.result[1] = OpenInteriorsOverlap(call.args[1], call.args[2])

\* C31: rectsIntersect is false for rectangles that abut on an axis, so for
\* those that share only an edge or a corner; it is the same with its
\* arguments swapped; for rectangles of positive width and height it is true
\* exactly when the open interiors overlap on both axes.
C31_StrictOverlap ==
    Returned("rectsIntersect") =>
        LET a == call.args[1]
            b == call.args[2]
            result == call.result[1]
        IN /\ Abut(a, b) => ~result
           /\ result = rectsIntersect(b, a)
           /\ (a.width > 0 /\ a.height > 0 /\ b.width > 0 /\ b.height > 0) =>
                  result = OpenInteriorsOverlap(a, b)

\* C31 witness: {0,0,10,10} and {10,0,10,10}, which share an edge, do not
\* intersect
C31_Witness ==
    /\ Returned("rectsIntersect")
    /\ call.args = <<[x |-> 0, y |-> 0, width |-> 10, height |-> 10],
                     [x |-> 10, y |-> 0, width |-> 10, height |-> 10]>>
    /\ call.result = Some(FALSE)

\* C32: for the square of side 10, open or closed by a copy of its first
\* vertex, isPointInPolygon reports (5,5) inside, (15,5) outside, and the
\* point (10,5) of the right edge outside.
C32_SquareBoundary ==
    (Returned("isPointInPolygon")
        /\ call.args[2] \in {SQUARE, Append(SQUARE, SQUARE[1])}) =>
        /\ call.args[1] = Pt(5, 5) => call.result[1]
        /\ call.args[1] = Pt(15, 5) => ~call.result[1]
        /\ call.args[1] = Pt(10, 5) => ~call.result[1]

\* C32 witness: the edge point (10,5) was tested against the closed square
C32_Witness ==
    /\ Returned("isPointInPolygon")
    /\ call.args = <<Pt(10, 5), Append(SQUARE, SQUARE[1])>>
    /\ call.result = Some(FALSE)

\* C33: every edge for which isPointInPolygon evaluates the quotient by
\* (yj - yi) has yj different from yi, whatever the polygon: repeated
\* vertices and horizontal edges included.
C33_NoDivisionByZero ==
    call.fn = "isPointInPolygon" =>
        LET point == call.args[1]
            polygon == call.args[2]
        IN \A i \in QuotientEdges(point, polygon) :
               polygon[IF i = 1 THEN Len(polygon) ELSE i - 1].y # polygon[i].y

\* C33 witness: a point at the height of the top edge was tested against the
\* closed square, which has two horizontal edges and one of length zero
C33_Witness ==
    /\ Returned("isPointInPolygon")
    /\ call.args = <<Pt(5, 10), Append(SQUARE, SQUARE[1])>>

====
